---------------------------- MODULE Spec2Model ----------------------------
(***************************************************************************)
(* cross-cursors: the corner trigger detector (main.py, CornerWatcher and  *)
(* _is_in_corner), the event broadcaster (main.py, MouseSocketServer) and  *)
(* the event receiver (client.py, ClientThread.run / handle_payload).      *)
(*                                                                         *)
(* Four specifications share the module:                                   *)
(*   Spec         the broadcaster: accept thread, broadcast, start, stop   *)
(*   SpecWatcher  the corner detector: setters, the poll cycle, the cursor *)
(*   SpecCorner   the pure containment test _is_in_corner over its inputs  *)
(*   SpecClient   the receiver's read loop over a byte stream              *)
(* Each leaves the variables of the other components unchanged.            *)
(***************************************************************************)
EXTENDS Integers, Sequences, FiniteSets, TLC

VARIABLES
    \* ---- CornerWatcher (main.py 191-257) ----
    threshold_px,        \* self._threshold_px
    position,            \* self._position
    enabled,             \* self._enabled
    target_screen_name,  \* self._target_screen_name
    in_corner,           \* self._in_corner
    cursor,              \* QCursor.pos(): <<x, y>>, moved by the user
    screens,             \* QGuiApplication.screens(): sequence of displays
    lastCall,            \* observer: the CornerWatcher method that ran last
    fired,               \* observer: the last step called _post_to_gui(on_enter)
    phase,               \* observer: 0 idle, 1 entered, 2 left, 3 entered again
    entries,             \* observer: notifications posted since phase 1 began
    prevLatch,           \* observer: in_corner when the last step began
    pending,             \* an on_enter call is queued in the GUI event loop
    asked,               \* observer: the threshold_px argument last passed in
    \* ---- _is_in_corner as a pure function (main.py 131-147) ----
    cq,                  \* the last query, or NoQuery
    cr,                  \* its result
    \* ---- MouseSocketServer (main.py 58-128) ----
    running,             \* self._running
    server_socket,       \* self._server_socket: None or the id of a socket
    socks,               \* state of each listening socket ever created
    clients,             \* self._clients: sequence of accepted connections
    tpc,                 \* program counter of each accept thread
    tsock,               \* the socket an accept thread is blocked on
    tconn,               \* the connection an accept thread has just accepted
    conn,                \* state of each peer connection
    received,            \* per peer: the frames written to its connection
    log,                 \* observer: one record per broadcast() call
    called,              \* observer: the method the GUI thread called last
    \* ---- self._clients_lock and the calls that take it, statement by statement ----
    lock,                \* who holds self._clients_lock: free, accept, broadcast, stop
    bpc,                 \* where a broadcast() call is: idle, acquire, send
    bsnap,               \* broadcast's list(self._clients)
    bi,                  \* index in bsnap of the next connection to write to
    bstale,              \* broadcast's list stale
    spc,                 \* where a stop() call is: idle, acquire, closing, clearing
    \* ---- ClientThread (client.py 36-96) and its connection ----
    c_running,           \* self._running
    sock,                \* self._sock: "None", "open" or "closed"
    cpc,                 \* where the thread is: created, started, socket,
                         \* connecting, loop, recv, finished
    buffer,              \* run()'s receive buffer
    wire,                \* bytes the server has written and recv has not returned yet
    srv_closed,          \* the server has closed its end of the connection
    consumed,            \* observer: all bytes recv has returned, in order
    partial,             \* observer: a read has ended inside a line
    dispatched,          \* the calls made on the pynput Controller, in order
    signals,             \* the Qt signals run() has emitted, in order
    cexc,                \* the exception that ended run(), or "none"
    stop_called,         \* observer: stop() was called after start()
    timed_out,           \* observer: the last step of run() was a read timeout
    \* ---- handle_payload as a pure function (client.py 131-161) ----
    hq,                  \* the payload and the local display geometry, or NoQuery
    hr,                  \* what handle_payload did with them
    \* ---- one event from broadcast to the receiver's decoder ----
    fq,                  \* the payload given to broadcast, or NoQuery
    fr,                  \* the bytes written for it and what the receiver decodes
    \* ---- one stream of lines through the receiver's loop body ----
    sq,                  \* the bytes the server wrote and where a read ends, or NoQuery
    sr,                  \* what the loop did with them
    \* ---- run_client and ClientThread.run on the same read results ----
    eq,                  \* the results of the successive recv calls, or NoQuery
    er                   \* how many were consumed and where each receiver is

dvars == <<threshold_px, position, enabled, target_screen_name, in_corner,
           cursor, screens, lastCall, fired, phase, entries, prevLatch, pending,
           asked>>
cvars == <<cq, cr>>
bvars == <<running, server_socket, socks, clients, tpc, tsock, tconn, conn,
           received, log, called>>
rvars == <<c_running, sock, cpc, buffer, wire, srv_closed, consumed, partial,
           dispatched, signals, cexc, stop_called, timed_out>>
hvars == <<hq, hr>>
fvars == <<fq, fr>>
svars == <<sq, sr>>
evars == <<eq, er>>
lvars == <<lock, bpc, bsnap, bi, bstale, spc>>
vars  == <<dvars, cvars, bvars, rvars, hvars, fvars, svars, evars, lvars>>

\* What a step of one component leaves unchanged: the other components.
notWatcher == <<cvars, bvars, rvars, hvars, fvars, svars, evars, lvars>>
notCorner  == <<dvars, bvars, rvars, hvars, fvars, svars, evars, lvars>>
notServer  == <<dvars, cvars, rvars, hvars, fvars, svars, evars, lvars>>
notClient  == <<dvars, cvars, bvars, hvars, fvars, svars, evars, lvars>>
notPayload == <<dvars, cvars, bvars, rvars, fvars, svars, evars, lvars>>
notFrame   == <<dvars, cvars, bvars, rvars, hvars, svars, evars, lvars>>
notLocked  == <<dvars, cvars, rvars, hvars, fvars, svars, evars>>
notReads   == <<dvars, cvars, bvars, rvars, hvars, fvars, svars, lvars>>
notStream  == <<dvars, cvars, bvars, rvars, hvars, fvars, evars, lvars>>

None == "<None>"

(***************************************************************************)
(* Bounds of the model.                                                    *)
(***************************************************************************)
MaxThreshold == 2
MaxPeers == 2        \* peer connections that ever connect
MaxEvents == 2       \* broadcast() calls
MaxFrames == 2       \* lines the server writes to one connection
MaxStreamLines == 3  \* lines of a stream given to the loop body as a whole
MaxReads == 3        \* recv calls made by the two receivers side by side
MaxStarts == 1       \* start() calls that create a socket (and an accept thread)

(***************************************************************************)
(* Geometry: displays of different size and origin.                        *)
(***************************************************************************)
Screen(n, x, y, w, h) == [name |-> n, x |-> x, y |-> y, width |-> w, height |-> h]

ScreenA == Screen("A", 0, 0, 8, 6)
ScreenB == Screen("B", 8, 0, 6, 8)

\* Display topologies QGuiApplication.screens() can return (hot-plug).
Topologies == { <<>>, <<ScreenA>>, <<ScreenA, ScreenB>> }

CORNER_POSITIONS == {"bottom-left", "bottom-right", "top-left", "top-right"}

\* Values the position setting can hold: the four corners, and a value the
\* configuration file can carry that is none of them.
PositionValues == CORNER_POSITIONS \cup {"center"}

\* Values of the target display name: None, empty, present, absent.
ScreenNames == {None, "", "A", "B", "Z"}

\* Cursor samples: corners of A and B, strictly inside A, between zones.
CursorPoints == { <<0, 5>>, <<2, 4>>, <<4, 3>>, <<8, 7>>, <<13, 0>>, <<0, 0>> }

ThresholdInputs == (-1) .. MaxThreshold

Max(a, b) == IF a >= b THEN a ELSE b
Min(a, b) == IF a <= b THEN a ELSE b

(***************************************************************************)
(* _is_in_corner (main.py 131-147)                                         *)
(***************************************************************************)
IsInCornerFlipped(geometry, x, y, threshold, pos) ==
    LET tx == geometry.x
        ty == geometry.y
        w  == geometry.width
        h  == geometry.height
    IN  IF pos = "bottom-left"
          THEN x <= tx + threshold /\ y >= ty + h - threshold
        ELSE IF pos = "bottom-right"
          THEN x >= tx + w - threshold /\ y >= ty + h - threshold
        ELSE IF pos = "top-left"
          THEN x <= tx + threshold /\ y < ty + threshold
        ELSE IF pos = "top-right"
          THEN x >= tx + w - threshold /\ y <= ty + threshold
        ELSE x <= tx + threshold /\ y <= ty + threshold

IsInCorner(geometry, x, y, threshold, pos) ==
    LET tx == geometry.x
        ty == geometry.y
        w  == geometry.width
        h  == geometry.height
    IN  IF pos = "bottom-left"
          THEN x <= tx + threshold /\ y >= ty + h - threshold
        ELSE IF pos = "bottom-right"
          THEN x >= tx + w - threshold /\ y >= ty + h - threshold
        ELSE IF pos = "top-left"
          THEN x <= tx + threshold /\ y <= ty + threshold
        ELSE IF pos = "top-right"
          THEN x >= tx + w - threshold /\ y <= ty + threshold
        ELSE x <= tx + threshold /\ y >= ty + h - threshold

(***************************************************************************)
(* CornerWatcher._poll_cursor, lines 236-248: the display subset and the   *)
(* containment result of one poll.                                         *)
(***************************************************************************)
Truthy(name) == name # None /\ name # ""

\* lines 236-241: the first display whose name is the target name
TargetIndex(scr, name) ==
    IF Truthy(name) /\ \E i \in 1..Len(scr) : scr[i].name = name
      THEN CHOOSE i \in 1..Len(scr) :
             /\ scr[i].name = name
             /\ \A j \in 1..(i-1) : scr[j].name # name
      ELSE 0

ScreensToCheckAll(scr, name) == scr

\* line 242
ScreensToCheck(scr, name) ==
    IF TargetIndex(scr, name) # 0 THEN << scr[TargetIndex(scr, name)] >> ELSE scr

\* lines 243-248
InAnyCorner(scr, name, pt, threshold, pos) ==
    \E i \in 1..Len(ScreensToCheck(scr, name)) :
        IsInCorner(ScreensToCheck(scr, name)[i], pt[1], pt[2], threshold, pos)

\* What the poll starting in the current state finds: containment is tested
\* only past the two early returns (lines 229-235).
PollFinds ==
    /\ enabled
    /\ screens # <<>>
    /\ InAnyCorner(screens, target_screen_name, cursor, threshold_px, position)

(***************************************************************************)
(* Observer of the re-entry scenario: advanced by polls, restarted by any  *)
(* other call on the detector.                                             *)
(***************************************************************************)
ObserveReset == phase' = 0 /\ entries' = 0

ObservePoll(found, posted) ==
    LET n == IF posted THEN 1 ELSE 0
    IN  IF ~enabled \/ screens = <<>>
          THEN UNCHANGED <<phase, entries>>
        ELSE IF phase = 0
          THEN IF posted THEN phase' = 1 /\ entries' = 1
                         ELSE UNCHANGED <<phase, entries>>
        ELSE IF phase = 1
          THEN phase' = (IF found THEN 1 ELSE 2) /\ entries' = entries + n
        ELSE IF phase = 2
          THEN phase' = (IF found THEN 3 ELSE 2) /\ entries' = entries + n
        ELSE IF found
          THEN phase' = 3 /\ entries' = (IF entries + n > 3 THEN 3 ELSE entries + n)
          ELSE ObserveReset

(***************************************************************************)
(* CornerWatcher: construction and methods                                 *)
(***************************************************************************)
\* __init__ (lines 194-210)
WatcherInit ==
    /\ asked \in ThresholdInputs
    /\ threshold_px = Max(1, asked)                               \* line 201
    /\ position \in PositionValues
    /\ target_screen_name \in ScreenNames
    /\ enabled = TRUE
    /\ in_corner = FALSE
    /\ cursor \in CursorPoints
    /\ screens \in Topologies
    /\ lastCall = "__init__"
    /\ fired = FALSE
    /\ pending = FALSE
    /\ phase = 0
    /\ entries = 0
    /\ prevLatch = FALSE

WatcherIdle ==
    /\ threshold_px = 1
    /\ asked = 1
    /\ position = "bottom-left"
    /\ target_screen_name = None
    /\ enabled = TRUE
    /\ in_corner = FALSE
    /\ cursor = <<0, 0>>
    /\ screens = <<>>
    /\ lastCall = "__init__"
    /\ fired = FALSE
    /\ pending = FALSE
    /\ phase = 0
    /\ entries = 0
    /\ prevLatch = FALSE

\* set_threshold storing its argument as it is
set_threshold_unclamped(t) ==
    /\ threshold_px' = t
    /\ asked' = t
    /\ lastCall' = "set_threshold"
    /\ prevLatch' = in_corner
    /\ fired' = FALSE
    /\ UNCHANGED pending
    /\ ObserveReset
    /\ UNCHANGED <<position, enabled, target_screen_name, in_corner, cursor, screens>>
    /\ UNCHANGED notWatcher

\* set_threshold (lines 212-213)
set_threshold(t) ==
    /\ threshold_px' = Max(1, t)
    /\ asked' = t
    /\ lastCall' = "set_threshold"
    /\ prevLatch' = in_corner
    /\ fired' = FALSE
    /\ UNCHANGED pending
    /\ ObserveReset
    /\ UNCHANGED <<position, enabled, target_screen_name, in_corner, cursor, screens>>
    /\ UNCHANGED notWatcher

set_position_keeps_latch(p) ==
    /\ position' = p
    /\ lastCall' = "set_position"
    /\ prevLatch' = in_corner
    /\ fired' = FALSE
    /\ UNCHANGED pending
    /\ UNCHANGED asked
    /\ ObserveReset
    /\ UNCHANGED <<threshold_px, enabled, target_screen_name, in_corner, cursor, screens>>
    /\ UNCHANGED notWatcher

\* set_position (lines 215-217)
set_position(p) ==
    /\ position' = p
    /\ in_corner' = FALSE
    /\ lastCall' = "set_position"
    /\ prevLatch' = in_corner
    /\ fired' = FALSE
    /\ UNCHANGED pending
    /\ UNCHANGED asked
    /\ ObserveReset
    /\ UNCHANGED <<threshold_px, enabled, target_screen_name, cursor, screens>>
    /\ UNCHANGED notWatcher

\* set_screen_name (lines 219-221)
set_screen_name(n) ==
    /\ target_screen_name' = n
    /\ in_corner' = FALSE
    /\ lastCall' = "set_screen_name"
    /\ prevLatch' = in_corner
    /\ fired' = FALSE
    /\ UNCHANGED pending
    /\ UNCHANGED asked
    /\ ObserveReset
    /\ UNCHANGED <<threshold_px, position, enabled, cursor, screens>>
    /\ UNCHANGED notWatcher

\* set_enabled (lines 223-226)
set_enabled(e) ==
    /\ enabled' = e
    /\ in_corner' = FALSE
    /\ lastCall' = "set_enabled"
    /\ prevLatch' = in_corner
    /\ fired' = FALSE
    /\ UNCHANGED pending
    /\ UNCHANGED asked
    /\ ObserveReset
    /\ UNCHANGED <<threshold_px, position, target_screen_name, cursor, screens>>
    /\ UNCHANGED notWatcher

\* _poll_cursor (lines 228-254): the new latch and whether on_enter is posted
PollLatchNoGuard(en, scr, name, pt, threshold, pos, latch) ==
    LET in_any_corner == scr # <<>> /\ InAnyCorner(scr, name, pt, threshold, pos)
    IN  IF scr = <<>> THEN [in_corner |-> latch, post |-> FALSE]
        ELSE IF in_any_corner /\ ~latch THEN [in_corner |-> TRUE, post |-> TRUE]
        ELSE IF ~in_any_corner /\ latch THEN [in_corner |-> FALSE, post |-> FALSE]
        ELSE [in_corner |-> latch, post |-> FALSE]

PollLatchLevel(en, scr, name, pt, threshold, pos, latch) ==
    LET in_any_corner == scr # <<>> /\ InAnyCorner(scr, name, pt, threshold, pos)
    IN  IF ~en \/ scr = <<>> THEN [in_corner |-> latch, post |-> FALSE]
        ELSE IF in_any_corner THEN [in_corner |-> TRUE, post |-> TRUE]
        ELSE IF latch THEN [in_corner |-> FALSE, post |-> FALSE]
        ELSE [in_corner |-> latch, post |-> FALSE]

PollLatchSticky(en, scr, name, pt, threshold, pos, latch) ==
    LET in_any_corner == scr # <<>> /\ InAnyCorner(scr, name, pt, threshold, pos)
    IN  IF ~en \/ scr = <<>> THEN [in_corner |-> latch, post |-> FALSE]
        ELSE IF in_any_corner /\ ~latch THEN [in_corner |-> TRUE, post |-> TRUE]
        ELSE [in_corner |-> latch, post |-> FALSE]

PollLatch(en, scr, name, pt, threshold, pos, latch) ==
    LET in_any_corner == scr # <<>> /\ InAnyCorner(scr, name, pt, threshold, pos)
    IN  IF ~en THEN [in_corner |-> latch, post |-> FALSE]             \* 229-230
        ELSE IF scr = <<>> THEN [in_corner |-> latch, post |-> FALSE] \* 234-235
        ELSE IF in_any_corner /\ ~latch                               \* 250-252
          THEN [in_corner |-> TRUE, post |-> TRUE]
        ELSE IF ~in_any_corner /\ latch                               \* 253-254
          THEN [in_corner |-> FALSE, post |-> FALSE]
        ELSE [in_corner |-> latch, post |-> FALSE]

\* The 75 ms timer fires (lines 207-210).  A call queued by the previous poll
\* with QTimer.singleShot(0, ...) is due before the next timeout of the
\* poll timer, so the event loop has made it by then.
_poll_cursor ==
    LET r == PollLatch(enabled, screens, target_screen_name, cursor,
                       threshold_px, position, in_corner)
    IN  /\ ~pending
        /\ in_corner' = r.in_corner
        /\ fired' = r.post
        /\ pending' = r.post                       \* line 252, _post_to_gui
        /\ UNCHANGED asked
        /\ lastCall' = "_poll_cursor"
        /\ prevLatch' = in_corner
        /\ ObservePoll(PollFinds, r.post)
        /\ UNCHANGED <<threshold_px, position, enabled, target_screen_name,
                       cursor, screens>>
        /\ UNCHANGED notWatcher

\* _post_to_gui (lines 150-152): the event loop makes the queued call of
\* on_enter.  Nothing the detector does in between withdraws it.
DeliverEnter ==
    /\ pending
    /\ pending' = FALSE
    /\ UNCHANGED asked
    /\ lastCall' = "on_enter"
    /\ prevLatch' = in_corner
    /\ fired' = FALSE
    /\ UNCHANGED <<phase, entries>>
    /\ UNCHANGED <<threshold_px, position, enabled, target_screen_name,
                   in_corner, cursor, screens>>
    /\ UNCHANGED notWatcher

\* The environment: the user moves the pointer; a display is plugged or
\* unplugged.  Neither is a call on the detector.
MoveCursor(pt) ==
    /\ cursor' = pt
    /\ cursor' # cursor
    /\ lastCall' = "cursor"
    /\ prevLatch' = in_corner
    /\ fired' = FALSE
    /\ UNCHANGED pending
    /\ UNCHANGED asked
    /\ UNCHANGED <<threshold_px, position, enabled, target_screen_name,
                   in_corner, screens, phase, entries>>
    /\ UNCHANGED notWatcher

ChangeScreens(scr) ==
    /\ screens' = scr
    /\ screens' # screens
    /\ lastCall' = "screens"
    /\ prevLatch' = in_corner
    /\ fired' = FALSE
    /\ UNCHANGED pending
    /\ UNCHANGED asked
    /\ UNCHANGED <<phase, entries>>
    /\ UNCHANGED <<threshold_px, position, enabled, target_screen_name,
                   in_corner, cursor>>
    /\ UNCHANGED notWatcher

NextWatcher ==
    \/ \E t \in ThresholdInputs : set_threshold(t)
    \/ \E p \in PositionValues : set_position(p)
    \/ \E n \in ScreenNames : set_screen_name(n)
    \/ \E e \in BOOLEAN : set_enabled(e)
    \/ _poll_cursor
    \/ DeliverEnter
    \/ \E pt \in CursorPoints : MoveCursor(pt)
    \/ \E scr \in Topologies : ChangeScreens(scr)

(***************************************************************************)
(* _is_in_corner applied to inputs drawn from bounded sets.                *)
(***************************************************************************)
NoQuery == [none |-> TRUE]
NoResult == [done |-> FALSE]
Result(b) == [done |-> TRUE, value |-> b]

Geometries ==
    { ScreenA, ScreenB, Screen("HD", 0, 0, 1920, 1080), Screen("L", -4, -2, 4, 3) }

QueryXs == {-5, -3, -1, 0, 1, 2, 3, 6, 7, 8, 9, 10, 12, 13, 30, 60, 61, 100, 1860, 1920}
QueryYs == {-2, -1, 0, 1, 2, 4, 5, 6, 7, 8, 60, 61, 1000, 1019, 1020, 1021, 1050}
QueryThresholds == (1 .. MaxThreshold) \cup {60}

Queries ==
    [geometry : Geometries, x : QueryXs, y : QueryYs,
     threshold : QueryThresholds, position : PositionValues]

\* No call of _is_in_corner is in progress.
CornerIdle == cq = NoQuery /\ cr = NoResult

\* A call with arguments drawn from the input sets, not yet evaluated.
CornerInit == cq \in Queries /\ cr = NoResult

\* The call returns.
CornerQuery ==
    /\ cr = NoResult
    /\ cr' = Result(IsInCorner(cq.geometry, cq.x, cq.y, cq.threshold, cq.position))
    /\ UNCHANGED cq
    /\ UNCHANGED notCorner

NextCorner == CornerQuery

(***************************************************************************)
(* MouseSocketServer (main.py 58-128)                                      *)
(*                                                                         *)
(* start, stop and broadcast run on the GUI thread, one at a time; each    *)
(* accept thread runs _accept_loop beside them.  The registry is touched   *)
(* only under self._clients_lock (lines 88, 99, 121), which broadcast      *)
(* holds for its whole pass: a pass is one step.                           *)
(***************************************************************************)
Peers   == 1 .. MaxPeers
SockIds == 1 .. MaxStarts

\* None, where a socket or a connection is expected.
NoSock == 0
NoConn == 0

\* A peer connection: "idle" not yet connected, "pending" returned by
\* accept() and not yet registered, "open" registered, "broken" the remote
\* end is gone and a write raises OSError, "closed" closed by the server.
ConnStates == {"idle", "pending", "open", "broken", "closed"}

\* Observer of the calls on the broadcaster: the method called by the last
\* step and whether the step before it called the same method (n = 2); a
\* step of an accept thread or of a peer restarts it.
Uncalled == [op |-> "none", n |-> 0]
Calling(op) == [op |-> op, n |-> IF called.op = op THEN 2 ELSE 1]

InRegistry(p) == \E i \in 1..Len(clients) : clients[i] = p

Range(seq) == { seq[i] : i \in 1..Len(seq) }

\* __init__ (lines 61-68)
ServerInit ==
    /\ running = FALSE
    /\ server_socket = NoSock
    /\ socks = [s \in SockIds |-> "none"]
    /\ clients = <<>>
    /\ tpc = [t \in SockIds |-> "none"]
    /\ tsock = [t \in SockIds |-> NoSock]
    /\ tconn = [t \in SockIds |-> NoConn]
    /\ conn = [p \in Peers |-> "idle"]
    /\ received = [p \in Peers |-> <<>>]
    /\ log = <<>>
    /\ called = Uncalled
    /\ lock = "free"
    /\ bpc = "idle"
    /\ bsnap = <<>>
    /\ bi = 1
    /\ bstale = <<>>
    /\ spc = "idle"

NextSock == Cardinality({s \in SockIds : socks[s] # "none"}) + 1

\* start (lines 70-80); bound says whether bind() succeeds (line 76)
StartNoOpClearsRegistry ==
    /\ running
    /\ clients' = <<>>
    /\ called' = Calling("start")
    /\ UNCHANGED <<running, server_socket, socks, tpc, tsock, tconn,
                   conn, received, log>>
    /\ UNCHANGED notServer

StartNoOp ==
    /\ running                                                 \* lines 71-72
    /\ called' = Calling("start")
    /\ UNCHANGED <<running, server_socket, socks, clients, tpc, tsock, tconn,
                   conn, received, log>>
    /\ UNCHANGED notServer

StartNew(bound) ==
    /\ ~running
    /\ NextSock \in SockIds
    /\ running' = TRUE                                          \* line 73
    /\ server_socket' = NextSock                                \* line 74
    /\ IF bound
         THEN /\ socks' = [socks EXCEPT ![NextSock] = "listening"]   \* 76-77
              /\ tpc' = [tpc EXCEPT ![NextSock] = "loop"]            \* 78-79
         ELSE /\ socks' = [socks EXCEPT ![NextSock] = "unbound"]     \* bind raises
              /\ UNCHANGED tpc
    /\ called' = Calling("start")
    /\ UNCHANGED <<clients, tsock, tconn, conn, received, log>>
    /\ UNCHANGED notServer

start == StartNoOp \/ \E bound \in BOOLEAN : StartNew(bound)

\* _accept_loop (lines 82-92), one step per statement that other threads can
\* interleave with.
\* line 84: while self._running
AcceptLoopTest(t) ==
    /\ tpc[t] = "loop"
    /\ tpc' = [tpc EXCEPT ![t] = IF running THEN "enter" ELSE "done"]
    /\ UNCHANGED <<running, server_socket, socks, clients, tsock, tconn, conn,
                   received, log>>
    /\ called' = Uncalled
    /\ UNCHANGED notServer

\* line 86: self._server_socket is read, accept() is entered.  With the
\* attribute already None the call raises AttributeError, which except
\* OSError does not catch: the thread dies.
AcceptEnter(t) ==
    /\ tpc[t] = "enter"
    /\ IF server_socket = NoSock
         THEN /\ tpc' = [tpc EXCEPT ![t] = "crashed"]
              /\ UNCHANGED tsock
         ELSE /\ tpc' = [tpc EXCEPT ![t] = "accepting"]
              /\ tsock' = [tsock EXCEPT ![t] = server_socket]
    /\ UNCHANGED <<running, server_socket, socks, clients, tconn, conn,
                   received, log>>
    /\ called' = Uncalled
    /\ UNCHANGED notServer

\* line 86: accept() returns the connection of a peer that connected;
\* connections are numbered in the order accept() returns them
AcceptReturn(t, p) ==
    /\ tpc[t] = "accepting"
    /\ socks[tsock[t]] = "listening"
    /\ conn[p] = "idle"
    /\ \A q \in 1..(p-1) : conn[q] # "idle"
    /\ conn' = [conn EXCEPT ![p] = "pending"]
    /\ tconn' = [tconn EXCEPT ![t] = p]
    /\ tpc' = [tpc EXCEPT ![t] = "accepted"]
    /\ UNCHANGED <<running, server_socket, socks, clients, tsock, received, log>>
    /\ called' = Uncalled
    /\ UNCHANGED notServer

\* lines 91-92: accept() raises OSError on the closed socket; break
AcceptError(t) ==
    /\ tpc[t] = "accepting"
    /\ socks[tsock[t]] = "closed"
    /\ tpc' = [tpc EXCEPT ![t] = "done"]
    /\ tsock' = [tsock EXCEPT ![t] = NoSock]
    /\ UNCHANGED <<running, server_socket, socks, clients, tconn, conn,
                   received, log>>
    /\ called' = Uncalled
    /\ UNCHANGED notServer

\* lines 87-90: under the lock, self._clients.append(conn)
AcceptRegister(t) ==
    /\ tpc[t] = "accepted"
    /\ clients' = Append(clients, tconn[t])
    /\ conn' = [conn EXCEPT ![tconn[t]] = IF @ = "pending" THEN "open" ELSE @]
    /\ tconn' = [tconn EXCEPT ![t] = NoConn]
    /\ tpc' = [tpc EXCEPT ![t] = "loop"]
    /\ UNCHANGED <<running, server_socket, socks, tsock, received, log>>
    /\ called' = Uncalled
    /\ UNCHANGED notServer

\* The environment: the remote end of a connection goes away; from then on a
\* write to the connection raises OSError.
PeerFail(p) ==
    /\ conn[p] \in {"pending", "open"}
    /\ conn' = [conn EXCEPT ![p] = "broken"]
    /\ UNCHANGED <<running, server_socket, socks, clients, tpc, tsock, tconn,
                   received, log>>
    /\ called' = Uncalled
    /\ UNCHANGED notServer

\* broadcast, lines 100-104: conn.sendall(data) on each connection of the
\* snapshot list(self._clients) from index i on; the result is the
\* connections written and the list stale, in iteration order.
RECURSIVE FanOut(_, _, _, _)
FanOut(snapshot, i, cstate, acc) ==
    IF i > Len(snapshot) THEN acc
    ELSE IF cstate[snapshot[i]] = "open"
      THEN FanOut(snapshot, i + 1, cstate,
                  [acc EXCEPT !.sent = Append(@, snapshot[i])])
      ELSE FanOut(snapshot, i + 1, cstate,
                  [acc EXCEPT !.stale = Append(@, snapshot[i])])

\* The fan-out with the per-connection try/except missing: the first failed
\* write ends the pass.
SendPassAborting(snapshot, cstate) ==
    LET firstBad == IF \E i \in 1..Len(snapshot) : cstate[snapshot[i]] # "open"
                      THEN CHOOSE i \in 1..Len(snapshot) :
                             /\ cstate[snapshot[i]] # "open"
                             /\ \A j \in 1..(i-1) : cstate[snapshot[j]] = "open"
                      ELSE Len(snapshot) + 1
    IN  [sent  |-> SubSeq(snapshot, 1, firstBad - 1),
         stale |-> IF firstBad <= Len(snapshot) THEN <<snapshot[firstBad]>> ELSE <<>>]

\* The fan-out writing the frame twice to the first connection.
SendPassTwice(snapshot, cstate) ==
    LET r == FanOut(snapshot, 1, cstate, [sent |-> <<>>, stale |-> <<>>])
    IN  [r EXCEPT !.sent = IF Len(@) > 0 THEN <<@[1]>> \o @ ELSE @]

SendPass(snapshot, cstate) ==
    FanOut(snapshot, 1, cstate, [sent |-> <<>>, stale |-> <<>>])

\* lines 105-111: the registry without the stale connections
RemoveStale(reg, stale) == SelectSeq(reg, LAMBDA c : c \notin Range(stale))

\* The frames one pass appends to each connection's stream: one per write.
Written(sent, p) == Cardinality({i \in 1..Len(sent) : sent[i] = p})

RECURSIVE Repeat(_, _)
Repeat(x, n) == IF n = 0 THEN <<>> ELSE <<x>> \o Repeat(x, n - 1)

\* broadcast without the test of lines 95-96
broadcast_unguarded(ev) ==
    /\ Len(log) < MaxEvents
    /\ ev = Len(log) + 1
    /\ log' = Append(log, [ev |-> ev, running |-> running, reg |-> clients,
                           broken |-> {p \in Peers : conn[p] # "open"}])
    /\ LET r == SendPass(clients, conn)
       IN  /\ received' = [p \in Peers |->
                             received[p] \o Repeat(ev, Written(r.sent, p))]
           /\ conn' = [p \in Peers |->
                         IF p \in Range(r.stale) THEN "closed" ELSE conn[p]]
           /\ clients' = RemoveStale(clients, r.stale)
    /\ called' = Calling("broadcast")
    /\ UNCHANGED <<running, server_socket, socks, tpc, tsock, tconn>>
    /\ UNCHANGED notServer

\* broadcast (lines 94-111); ev identifies the payload
broadcast(ev) ==
    /\ Len(log) < MaxEvents
    /\ ev = Len(log) + 1
    /\ log' = Append(log, [ev |-> ev, running |-> running, reg |-> clients,
                           \* the connections a write to which raises
                           broken |-> {p \in Peers : conn[p] # "open"}])
    /\ IF ~running
         THEN UNCHANGED <<clients, conn, received>>            \* lines 95-96
         ELSE LET r == SendPass(clients, conn)
              IN  /\ received' = [p \in Peers |->
                                    received[p] \o Repeat(ev, Written(r.sent, p))]
                  /\ conn' = [p \in Peers |->
                                IF p \in Range(r.stale) THEN "closed" ELSE conn[p]]
                  /\ clients' = RemoveStale(clients, r.stale)
    /\ called' = Calling("broadcast")
    /\ UNCHANGED <<running, server_socket, socks, tpc, tsock, tconn>>
    /\ UNCHANGED notServer

stop_keeps_registry ==
    /\ running' = FALSE
    /\ IF server_socket # NoSock
         THEN socks' = [socks EXCEPT ![server_socket] = "closed"]
         ELSE UNCHANGED socks
    /\ server_socket' = NoSock
    /\ called' = Calling("stop")
    /\ UNCHANGED <<clients, conn, tpc, tsock, tconn, received, log>>
    /\ UNCHANGED notServer

\* stop (lines 113-128)
stop ==
    /\ running' = FALSE                                         \* line 114
    /\ IF server_socket # NoSock                                  \* lines 115-120
         THEN socks' = [socks EXCEPT ![server_socket] = "closed"]
         ELSE UNCHANGED socks
    /\ server_socket' = NoSock
    /\ conn' = [p \in Peers |-> IF InRegistry(p) THEN "closed" ELSE conn[p]]
    /\ clients' = <<>>                                          \* line 127
    /\ called' = Calling("stop")
    /\ UNCHANGED <<tpc, tsock, tconn, received, log>>
    /\ UNCHANGED notServer

\* The steps an accept thread takes on its own: each of them is taken once
\* the thread is scheduled; accept() returning a connection is not one, it
\* waits for a peer.
AcceptThreadStep ==
    \E t \in SockIds :
        AcceptLoopTest(t) \/ AcceptEnter(t) \/ AcceptError(t) \/ AcceptRegister(t)

Next ==
    \/ start
    \/ stop
    \/ \E ev \in 1..MaxEvents : broadcast(ev)
    \/ \E t \in SockIds : AcceptLoopTest(t)
    \/ \E t \in SockIds : AcceptEnter(t)
    \/ \E t \in SockIds, p \in Peers : AcceptReturn(t, p)
    \/ \E t \in SockIds : AcceptError(t)
    \/ \E t \in SockIds : AcceptRegister(t)
    \/ \E p \in Peers : PeerFail(p)

(***************************************************************************)
(* The same calls statement by statement, with self._clients_lock: a       *)
(* broadcast() and a stop() running on two threads beside the accept       *)
(* threads.  start, the accept loop up to accept() and the peers are the   *)
(* actions above.                                                          *)
(***************************************************************************)
\* _accept_loop line 88: with self._clients_lock
RegAcquire(t) ==
    /\ tpc[t] = "accepted"
    /\ lock = "free"
    /\ lock' = "accept"
    /\ tpc' = [tpc EXCEPT ![t] = "locked"]
    /\ called' = Uncalled
    /\ UNCHANGED <<running, server_socket, socks, clients, tsock, tconn, conn,
                   received, log>>
    /\ UNCHANGED <<bpc, bsnap, bi, bstale, spc>>
    /\ UNCHANGED notLocked

\* line 89: self._clients.append(conn), and the lock is released
RegAppend(t) ==
    /\ tpc[t] = "locked"
    /\ clients' = Append(clients, tconn[t])
    /\ conn' = [conn EXCEPT ![tconn[t]] = IF @ = "pending" THEN "open" ELSE @]
    /\ tconn' = [tconn EXCEPT ![t] = NoConn]
    /\ tpc' = [tpc EXCEPT ![t] = "loop"]
    /\ lock' = "free"
    /\ called' = Uncalled
    /\ UNCHANGED <<running, server_socket, socks, tsock, received, log>>
    /\ UNCHANGED <<bpc, bsnap, bi, bstale, spc>>
    /\ UNCHANGED notLocked

\* broadcast lines 95-98
BcastCall ==
    /\ bpc = "idle"
    /\ Len(log) < MaxEvents
    /\ log' = Append(log, [ev |-> Len(log) + 1, running |-> running, reg |-> clients,
                           broken |-> {p \in Peers : conn[p] # "open"}])
    /\ bpc' = IF running THEN "acquire" ELSE "idle"
    /\ called' = Uncalled
    /\ UNCHANGED <<running, server_socket, socks, clients, tpc, tsock, tconn, conn,
                   received>>
    /\ UNCHANGED <<lock, bsnap, bi, bstale, spc>>
    /\ UNCHANGED notLocked

\* The snapshot taken without waiting for the lock.
BcastAcquireNoLock ==
    /\ bpc = "acquire"
    /\ lock' = "broadcast"
    /\ bsnap' = clients
    /\ bi' = 1
    /\ bstale' = <<>>
    /\ bpc' = "send"
    /\ called' = Uncalled
    /\ UNCHANGED <<running, server_socket, socks, clients, tpc, tsock, tconn, conn,
                   received, log>>
    /\ UNCHANGED spc
    /\ UNCHANGED notLocked

\* lines 99-100: with self._clients_lock, then list(self._clients)
BcastAcquire ==
    /\ bpc = "acquire"
    /\ lock = "free"
    /\ lock' = "broadcast"
    /\ bsnap' = clients
    /\ bi' = 1
    /\ bstale' = <<>>
    /\ bpc' = "send"
    /\ called' = Uncalled
    /\ UNCHANGED <<running, server_socket, socks, clients, tpc, tsock, tconn, conn,
                   received, log>>
    /\ UNCHANGED spc
    /\ UNCHANGED notLocked

\* lines 101-104: conn.sendall(data) on the next connection of the snapshot
BcastSend ==
    /\ bpc = "send"
    /\ bi <= Len(bsnap)
    /\ IF conn[bsnap[bi]] = "open"
         THEN /\ received' = [received EXCEPT ![bsnap[bi]] = Append(@, Len(log))]
              /\ UNCHANGED bstale
         ELSE /\ bstale' = Append(bstale, bsnap[bi])
              /\ UNCHANGED received
    /\ bi' = bi + 1
    /\ called' = Uncalled
    /\ UNCHANGED <<running, server_socket, socks, clients, tpc, tsock, tconn, conn, log>>
    /\ UNCHANGED <<lock, bpc, bsnap, spc>>
    /\ UNCHANGED notLocked

\* lines 105-111: the stale connections are closed and removed; the lock is
\* released
BcastClean ==
    /\ bpc = "send"
    /\ bi > Len(bsnap)
    /\ conn' = [p \in Peers |-> IF p \in Range(bstale) THEN "closed" ELSE conn[p]]
    /\ clients' = RemoveStale(clients, bstale)
    /\ lock' = "free"
    /\ bpc' = "idle"
    /\ bsnap' = <<>>
    /\ bi' = 1
    /\ bstale' = <<>>
    /\ called' = Uncalled
    /\ UNCHANGED <<running, server_socket, socks, tpc, tsock, tconn, received, log>>
    /\ UNCHANGED spc
    /\ UNCHANGED notLocked

\* stop lines 114-120
StopCall ==
    /\ spc = "idle"
    /\ running' = FALSE
    /\ IF server_socket # NoSock
         THEN socks' = [socks EXCEPT ![server_socket] = "closed"]
         ELSE UNCHANGED socks
    /\ server_socket' = NoSock
    /\ spc' = "acquire"
    /\ called' = Uncalled
    /\ UNCHANGED <<clients, tpc, tsock, tconn, conn, received, log>>
    /\ UNCHANGED <<lock, bpc, bsnap, bi, bstale>>
    /\ UNCHANGED notLocked

\* line 121: with self._clients_lock
StopAcquire ==
    /\ spc = "acquire"
    /\ lock = "free"
    /\ lock' = "stop"
    /\ spc' = "closing"
    /\ called' = Uncalled
    /\ UNCHANGED <<running, server_socket, socks, clients, tpc, tsock, tconn, conn,
                   received, log>>
    /\ UNCHANGED <<bpc, bsnap, bi, bstale>>
    /\ UNCHANGED notLocked

\* lines 122-126: every registered connection is closed
StopClose ==
    /\ spc = "closing"
    /\ conn' = [p \in Peers |-> IF InRegistry(p) THEN "closed" ELSE conn[p]]
    /\ spc' = "clearing"
    /\ called' = Uncalled
    /\ UNCHANGED <<running, server_socket, socks, clients, tpc, tsock, tconn,
                   received, log>>
    /\ UNCHANGED <<lock, bpc, bsnap, bi, bstale>>
    /\ UNCHANGED notLocked

\* line 127: self._clients = [], and the lock is released
StopClear ==
    /\ spc = "clearing"
    /\ clients' = <<>>
    /\ lock' = "free"
    /\ spc' = "idle"
    /\ called' = Uncalled
    /\ UNCHANGED <<running, server_socket, socks, tpc, tsock, tconn, conn,
                   received, log>>
    /\ UNCHANGED <<bpc, bsnap, bi, bstale>>
    /\ UNCHANGED notLocked

NextLocked ==
    \/ start
    \/ \E t \in SockIds : AcceptLoopTest(t)
    \/ \E t \in SockIds : AcceptEnter(t)
    \/ \E t \in SockIds, p \in Peers : AcceptReturn(t, p)
    \/ \E t \in SockIds : AcceptError(t)
    \/ \E t \in SockIds : RegAcquire(t)
    \/ \E t \in SockIds : RegAppend(t)
    \/ \E p \in Peers : PeerFail(p)
    \/ BcastCall
    \/ BcastAcquire
    \/ BcastSend
    \/ BcastClean
    \/ StopCall
    \/ StopAcquire
    \/ StopClose
    \/ StopClear

(***************************************************************************)
(* The wire: bytes.  A byte is a delimiter, a blank, a bracket, a byte     *)
(* that is not valid UTF-8, or one member ("key": value) of a JSON object. *)
(***************************************************************************)
LF   == "\n"
SP   == " "
BAD  == "0xFF"

\* The members the model's frames are built from: token -> key and value.
\* A value is tagged with its Python type.
PyNone   == [t |-> "None"]
PyStr(v) == [t |-> "str", v |-> v]
PyInt(v) == [t |-> "int", v |-> v]

Members ==
    [ type_move    |-> [key |-> "type",   val |-> PyStr("move")],
      type_press   |-> [key |-> "type",   val |-> PyStr("press")],
      type_release |-> [key |-> "type",   val |-> PyStr("release")],
      type_scroll  |-> [key |-> "type",   val |-> PyStr("scroll")],
      type_key     |-> [key |-> "type",   val |-> PyStr("key")],
      x_10         |-> [key |-> "x",      val |-> PyInt(10)],
      x_11         |-> [key |-> "x",      val |-> PyInt(11)],
      x_rel_3      |-> [key |-> "x_rel",  val |-> PyInt(3)],
      y_rel_5      |-> [key |-> "y_rel",  val |-> PyInt(5)],
      sw_1920      |-> [key |-> "screen_width",  val |-> PyInt(1920)],
      sh_1080      |-> [key |-> "screen_height", val |-> PyInt(1080)],
      button_right |-> [key |-> "button", val |-> PyStr("right")],
      dy_120       |-> [key |-> "dy",     val |-> PyInt(120)],
      y_20         |-> [key |-> "y",      val |-> PyInt(20)],
      button_left  |-> [key |-> "button", val |-> PyStr("left")],
      dx_1         |-> [key |-> "dx",     val |-> PyInt(1)],
      dy_m2        |-> [key |-> "dy",     val |-> PyInt(-2)],
      dx_abc       |-> [key |-> "dx",     val |-> PyStr("abc")] ]

MemberTokens == DOMAIN Members

\* bytes.strip() and json's whitespace
IsBlank(line) == \A i \in 1..Len(line) : line[i] = SP

RECURSIVE Strip(_)
Strip(line) ==
    IF line = <<>> THEN line
    ELSE IF Head(line) = SP THEN Strip(Tail(line))
    ELSE IF line[Len(line)] = SP THEN Strip(SubSeq(line, 1, Len(line) - 1))
    ELSE line

\* line.decode("utf-8") raises UnicodeDecodeError on a byte that is not UTF-8
Utf8Ok(line) == \A i \in 1..Len(line) : line[i] # BAD

\* A member whose value is free text, the display name, is written byte by
\* byte: its key, then a JSON string.  A name is a string of the model, its
\* characters are given by NameChars.
KeyScreen == "screen:"
QUOTE == "<quote>"
BS    == "<backslash>"

ScreenStrings == {"A", "A<LF>B", "D<backslash>1", "Q<quote>"}

NameChars(name) ==
    CASE name = "A"             -> <<"A">>
      [] name = "A<LF>B"        -> <<"A", LF, "B">>
      [] name = "D<backslash>1" -> <<"D", BS, "1">>
      [] name = "Q<quote>"      -> <<"Q", QUOTE>>

EscapeNothing(chars) == chars

\* json.dumps of a string, without its quotes: the escapes of ", \ and of
\* the control character newline
RECURSIVE Escape(_)
Escape(chars) ==
    IF chars = <<>> THEN <<>>
    ELSE (CASE Head(chars) = LF    -> <<BS, "n">>
            [] Head(chars) = QUOTE -> <<BS, QUOTE>>
            [] Head(chars) = BS    -> <<BS, BS>>
            [] OTHER               -> <<Head(chars)>>) \o Escape(Tail(chars))

\* json.loads of the inside of a string
RECURSIVE Unescape(_)
Unescape(bytes) ==
    IF bytes = <<>> THEN <<>>
    ELSE IF Head(bytes) = BS /\ Len(bytes) >= 2
      THEN <<IF bytes[2] = "n" THEN LF ELSE bytes[2]>> \o Unescape(SubSeq(bytes, 3, Len(bytes)))
      ELSE <<Head(bytes)>> \o Unescape(Tail(bytes))

\* index of the quote that closes the string whose inside starts at j, 0
\* when the string is not closed or holds a control character
RECURSIVE StringEnd(_, _)
StringEnd(toks, j) ==
    IF j > Len(toks) THEN 0
    ELSE IF toks[j] = QUOTE THEN j
    ELSE IF toks[j] = LF THEN 0
    ELSE IF toks[j] = BS
      THEN IF j + 1 <= Len(toks) /\ toks[j + 1] \in {"n", QUOTE, BS}
             THEN StringEnd(toks, j + 2) ELSE 0
    ELSE StringEnd(toks, j + 1)

\* the members of an object, in order, or failure
RECURSIVE ParseMembers(_)
ParseMembers(toks) ==
    IF toks = <<>> THEN [ok |-> TRUE, ms |-> <<>>]
    ELSE IF Head(toks) \in MemberTokens
      THEN LET r == ParseMembers(Tail(toks))
           IN  [ok |-> r.ok, ms |-> <<Members[Head(toks)]>> \o r.ms]
    ELSE IF Head(toks) = KeyScreen /\ Len(toks) >= 3 /\ toks[2] = QUOTE
            /\ StringEnd(toks, 3) # 0
      THEN LET e     == StringEnd(toks, 3)
               chars == Unescape(SubSeq(toks, 3, e - 1))
               r     == ParseMembers(SubSeq(toks, e + 1, Len(toks)))
           IN  IF \E name \in ScreenStrings : NameChars(name) = chars
                 THEN [ok |-> r.ok,
                       ms |-> <<[key |-> "screen",
                                 val |-> PyStr(CHOOSE name \in ScreenStrings :
                                                 NameChars(name) = chars)]>> \o r.ms]
                 ELSE [ok |-> FALSE, ms |-> <<>>]
    ELSE [ok |-> FALSE, ms |-> <<>>]

\* The dict of an object's members; a repeated key keeps its last value.
RECURSIVE DictOf(_)
DictOf(ms) ==
    IF ms = <<>> THEN [k \in {} |-> PyNone]
    ELSE LET m    == ms[Len(ms)]
             rest == DictOf(SubSeq(ms, 1, Len(ms) - 1))
         IN  [k \in DOMAIN rest \cup {m.key} |-> IF k = m.key THEN m.val ELSE rest[k]]

\* json.loads: an object, an array, or JSONDecodeError
Loads(line) ==
    LET text == Strip(line)
        n    == Len(text)
    IN  IF n >= 2 /\ text[1] = "{" /\ text[n] = "}"
           /\ ParseMembers(SubSeq(text, 2, n - 1)).ok
          THEN [kind |-> "dict", dict |-> DictOf(ParseMembers(SubSeq(text, 2, n - 1)).ms)]
        ELSE IF text = <<"[", "]">>
          THEN [kind |-> "list"]
          ELSE [kind |-> "JSONDecodeError"]

(***************************************************************************)
(* map_button (client.py 23-33)                                            *)
(***************************************************************************)
\* name.lower() and the substring tests, on the button names of the model
ButtonNames == {"left", "right", "middle", "Left", "wheel", "side", ""}

Lower(name) == IF name = "Left" THEN "left" ELSE name

Contains(name, part) == name = part

\* the Button, "None", or the exception raised
map_button(name) ==
    IF name.t = "None" THEN [btn |-> "None", exc |-> "none"]
    ELSE IF name.t = "int"
      THEN IF name.v = 0 THEN [btn |-> "None", exc |-> "none"]
           ELSE [btn |-> "None", exc |-> "AttributeError"]       \* int has no lower()
    ELSE IF name.v = "" THEN [btn |-> "None", exc |-> "none"]
    ELSE IF Contains(Lower(name.v), "left") THEN [btn |-> "left", exc |-> "none"]
    ELSE IF Contains(Lower(name.v), "right") THEN [btn |-> "right", exc |-> "none"]
    ELSE IF Contains(Lower(name.v), "middle") \/ Contains(Lower(name.v), "wheel")
      THEN [btn |-> "middle", exc |-> "none"]
    ELSE [btn |-> "None", exc |-> "none"]

(***************************************************************************)
(* handle_payload (client.py 131-161)                                      *)
(***************************************************************************)
Get(payload, key) == IF key \in DOMAIN payload THEN payload[key] ELSE PyNone

GetOr(payload, key, default) == IF key \in DOMAIN payload THEN payload[key] ELSE default

IsTruthy(v) ==
    CASE v.t = "None" -> FALSE
      [] v.t = "int"  -> v.v # 0
      [] v.t = "str"  -> v.v # ""

\* int(v): the integer, or the exception int() raises; the strings of the
\* model are not numerals
PyToInt(v) ==
    CASE v.t = "int"  -> [ok |-> TRUE, v |-> v.v, exc |-> "none"]
      [] v.t = "None" -> [ok |-> FALSE, v |-> 0, exc |-> "TypeError"]
      [] v.t = "str"  -> [ok |-> FALSE, v |-> 0, exc |-> "ValueError"]

\* int(a / float(b) * c): the quotient truncated toward zero
Trunc(num, den) ==
    LET an == IF num < 0 THEN -num ELSE num
        ad == IF den < 0 THEN -den ELSE den
        q  == an \div ad
    IN  IF (num < 0) = (den < 0) THEN q ELSE -q

NoCall   == <<>>
Call(c)  == <<c>>
Raise(e) == [calls |-> NoCall, exc |-> e]
Done(cs) == [calls |-> cs, exc |-> "none"]

NoGeometry == [none |-> TRUE]

\* lines 147-149
MoveAbsolute(payload) ==
    LET x == Get(payload, "x")
        y == Get(payload, "y")
    IN  IF x.t # "None" /\ y.t # "None"
          THEN IF ~PyToInt(x).ok THEN Raise(PyToInt(x).exc)
               ELSE IF ~PyToInt(y).ok THEN Raise(PyToInt(y).exc)
               ELSE Done(Call([op |-> "position", x |-> PyToInt(x).v, y |-> PyToInt(y).v]))
          ELSE Done(NoCall)

\* The relative mapping guarded by the truth of all four fields: a relative
\* coordinate of 0 falls back to the absolute point.
HandleMoveFalsyZero(payload, geo) ==
    LET x_rel == Get(payload, "x_rel")
        y_rel == Get(payload, "y_rel")
        sw    == Get(payload, "screen_width")
        sh    == Get(payload, "screen_height")
    IN  IF /\ IsTruthy(x_rel) /\ IsTruthy(y_rel) /\ IsTruthy(sw) /\ IsTruthy(sh)
           /\ geo # NoGeometry
          THEN Done(Call([op |-> "position",
                          x |-> geo.x + Trunc(x_rel.v * geo.width, sw.v),
                          y |-> geo.y + Trunc(y_rel.v * geo.height, sh.v)]))
          ELSE MoveAbsolute(payload)

\* lines 133-149
HandleMove(payload, geo) ==
    LET x_rel == Get(payload, "x_rel")
        y_rel == Get(payload, "y_rel")
        sw    == Get(payload, "screen_width")
        sh    == Get(payload, "screen_height")
    IN  IF /\ x_rel.t # "None" /\ y_rel.t # "None" /\ sw.t # "None" /\ sh.t # "None"
           /\ IsTruthy(sw) /\ IsTruthy(sh)
           /\ geo # NoGeometry
          THEN IF ~PyToInt(x_rel).ok THEN Raise(PyToInt(x_rel).exc)
               ELSE IF sw.t # "int" THEN Raise("ValueError")
               ELSE IF ~PyToInt(y_rel).ok THEN Raise(PyToInt(y_rel).exc)
               ELSE IF sh.t # "int" THEN Raise("ValueError")
               ELSE Done(Call([op |-> "position",
                               x |-> geo.x + Trunc(x_rel.v * geo.width, sw.v),
                               y |-> geo.y + Trunc(y_rel.v * geo.height, sh.v)]))
          ELSE MoveAbsolute(payload)

\* lines 150-157
HandleButton(payload, op) ==
    LET b == map_button(Get(payload, "button"))
    IN  IF b.exc # "none" THEN Raise(b.exc)
        ELSE IF b.btn # "None" THEN Done(Call([op |-> op, button |-> b.btn]))
        ELSE Done(NoCall)

\* lines 158-161
HandleScroll(payload) ==
    LET dx == PyToInt(GetOr(payload, "dx", PyInt(0)))
        dy == PyToInt(GetOr(payload, "dy", PyInt(0)))
    IN  IF ~dx.ok THEN Raise(dx.exc)
        ELSE IF ~dy.ok THEN Raise(dy.exc)
        ELSE Done(Call([op |-> "scroll", dx |-> dx.v, dy |-> dy.v]))

\* handle_payload rejecting a type it does not know
handle_payload_unknown_raises(loaded, geo) ==
    IF loaded.kind # "dict" THEN Raise("AttributeError")
    ELSE LET payload == loaded.dict
             ptype   == Get(payload, "type")
         IN  IF ptype = PyStr("move") THEN HandleMove(payload, geo)
             ELSE IF ptype = PyStr("press") THEN HandleButton(payload, "press")
             ELSE IF ptype = PyStr("release") THEN HandleButton(payload, "release")
             ELSE IF ptype = PyStr("scroll") THEN HandleScroll(payload)
             ELSE Raise("ValueError")

\* handle_payload on what json.loads returned: the calls on the Controller
\* and the exception raised, if any.  A list has no get(): AttributeError.
handle_payload(loaded, geo) ==
    IF loaded.kind # "dict" THEN Raise("AttributeError")
    ELSE LET payload == loaded.dict
             ptype   == Get(payload, "type")
         IN  IF ptype = PyStr("move") THEN HandleMove(payload, geo)
             ELSE IF ptype = PyStr("press") THEN HandleButton(payload, "press")
             ELSE IF ptype = PyStr("release") THEN HandleButton(payload, "release")
             ELSE IF ptype = PyStr("scroll") THEN HandleScroll(payload)
             ELSE Done(NoCall)

\* QGuiApplication.primaryScreen().geometry() on the follower
PrimaryGeometry == Screen("local", 0, 0, 2560, 1440)

(***************************************************************************)
(* handle_payload as a function of the decoded object and of the local     *)
(* display: the payloads a JSON object of the protocol's keys can decode   *)
(* to, each key absent or present.  On the integers below the double       *)
(* arithmetic of lines 143-144 is exact or ends far from an integer, so    *)
(* int() gives the truncated exact quotient.                               *)
(***************************************************************************)
Absent == [t |-> "absent"]
Opt(S) == {Absent} \cup S
Ints(S) == { PyInt(v) : v \in S }

\* the dict with the keys whose value is not Absent
MkDict(f) == [k \in {j \in DOMAIN f : f[j].t # "absent"} |-> f[k]]

MovePayloads ==
    { MkDict([type |-> PyStr("move"), x |-> a, y |-> b, x_rel |-> c, y_rel |-> d,
              screen_width |-> e, screen_height |-> g]) :
        a \in Opt(Ints({10})), b \in Opt(Ints({20})),
        c \in Opt(Ints({0, 2, 3, 960, -1})), d \in Opt(Ints({0, 5, 540})),
        e \in Opt(Ints({0, 4, 1920})), g \in Opt(Ints({0, 4, 1080})) }

ButtonPayloads ==
    { MkDict([type |-> PyStr(t), button |-> b]) :
        t \in {"press", "release"}, b \in Opt({ PyStr(n) : n \in ButtonNames }) }

ScrollPayloads ==
    { MkDict([type |-> PyStr("scroll"), dx |-> a, dy |-> b]) :
        a \in Opt({PyInt(1), PyStr("abc")}), b \in Opt(Ints({-2})) }

OtherPayloads ==
    { MkDict([type |-> t, x |-> a, y |-> a, button |-> b, dx |-> c, dy |-> c]) :
        t \in Opt({PyStr("key"), PyStr("")}), a \in Opt(Ints({10})),
        b \in Opt({PyStr("left")}), c \in Opt(Ints({1})) }

Payloads == MovePayloads \cup ButtonPayloads \cup ScrollPayloads \cup OtherPayloads

LocalGeometries == {PrimaryGeometry, Screen("local", 100, 50, 5, 7), NoGeometry}

PayloadIdle == hq = NoQuery /\ hr = NoResult

PayloadInit ==
    /\ hq \in { [payload |-> pl, geo |-> g] : pl \in Payloads, g \in LocalGeometries }
    /\ hr = NoResult

PayloadQuery ==
    /\ hr = NoResult
    /\ hr' = Result(handle_payload([kind |-> "dict", dict |-> hq.payload], hq.geo))
    /\ UNCHANGED hq
    /\ UNCHANGED notPayload

NextPayload == PayloadQuery

(***************************************************************************)
(* ClientThread.run (client.py 51-88) and stop (90-96)                     *)
(***************************************************************************)

\* sock.recv(4096)
RecvSize == 4096

\* The lines the server writes in the model: two events, an event of a type
\* the receiver does not know, blank lines, and lines that do not decode.
FrameMove      == <<"{", "type_move", "x_10", "y_20", "}">>
FramePress     == <<"{", "type_press", "button_left", "}">>
FrameUnknown   == <<"{", "type_key", "}">>
FrameNoType    == <<"{", "x_10", "y_20", "}">>
LineEmpty      == <<>>
LineBlank      == <<SP>>
LineTruncated  == <<"{", "type_press">>
LineArray      == <<"[", "]">>
LineNotUtf8    == <<BAD>>
LineWrongType  == <<"{", "type_scroll", "dx_abc", "}">>

ValidFrames == {FrameMove, FramePress}
MaxLineLen == Len(FrameMove)
ServerLines ==
    ValidFrames \cup {FrameUnknown, FrameNoType, LineEmpty, LineBlank, LineTruncated,
                      LineArray, LineNotUtf8, LineWrongType}

\* index of the first newline of the buffer, 0 when there is none (line 71)
FirstLF(buf) ==
    IF \E i \in 1..Len(buf) : buf[i] = LF
      THEN CHOOSE i \in 1..Len(buf) : buf[i] = LF /\ \A j \in 1..(i-1) : buf[j] # LF
      ELSE 0

\* The extraction leaving its loop at a blank line (`break` in place of
\* `continue` at line 74): the lines after it wait for the next read.
RECURSIVE ExtractFramesBlankEnds(_, _)
ExtractFramesBlankEnds(buf, calls) ==
    LET k == FirstLF(buf)
    IN  IF k = 0 THEN [buffer |-> buf, calls |-> calls, exc |-> "none"]
        ELSE LET line == SubSeq(buf, 1, k - 1)
                 rest == SubSeq(buf, k + 1, Len(buf))
             IN  IF IsBlank(line) THEN [buffer |-> rest, calls |-> calls, exc |-> "none"]
                 ELSE IF ~Utf8Ok(line)
                   THEN [buffer |-> rest, calls |-> calls, exc |-> "UnicodeDecodeError"]
                 ELSE IF Loads(line).kind = "JSONDecodeError"
                   THEN ExtractFramesBlankEnds(rest, calls)
                 ELSE LET h == handle_payload(Loads(line), PrimaryGeometry)
                      IN  IF h.exc # "none"
                            THEN [buffer |-> rest, calls |-> calls \o h.calls, exc |-> h.exc]
                            ELSE ExtractFramesBlankEnds(rest, calls \o h.calls)

\* The extraction with `if` in place of `while` at line 71: one line of the
\* buffer is taken per read.
ExtractFramesOnce(buf, calls) ==
    LET k == FirstLF(buf)
    IN  IF k = 0 THEN [buffer |-> buf, calls |-> calls, exc |-> "none"]
        ELSE LET line == SubSeq(buf, 1, k - 1)
                 rest == SubSeq(buf, k + 1, Len(buf))
             IN  IF IsBlank(line) \/ ~Utf8Ok(line) \/ Loads(line).kind = "JSONDecodeError"
                   THEN [buffer |-> rest, calls |-> calls,
                         exc |-> IF ~IsBlank(line) /\ ~Utf8Ok(line)
                                   THEN "UnicodeDecodeError" ELSE "none"]
                   ELSE LET h == handle_payload(Loads(line), PrimaryGeometry)
                        IN  [buffer |-> rest, calls |-> calls \o h.calls, exc |-> h.exc]

\* lines 71-79: the inner while loop, from a buffer and the calls made so
\* far; ends with no newline left in the buffer or with an exception.
RECURSIVE ExtractFrames(_, _)
ExtractFrames(buf, calls) ==
    LET k == FirstLF(buf)
    IN  IF k = 0 THEN [buffer |-> buf, calls |-> calls, exc |-> "none"]
        ELSE LET line == SubSeq(buf, 1, k - 1)                    \* line 72
                 rest == SubSeq(buf, k + 1, Len(buf))
             IN  IF IsBlank(line) THEN ExtractFrames(rest, calls) \* 73-74
                 ELSE IF ~Utf8Ok(line)                            \* line 76
                   THEN [buffer |-> rest, calls |-> calls, exc |-> "UnicodeDecodeError"]
                 ELSE IF Loads(line).kind = "JSONDecodeError"     \* 77-78
                   THEN ExtractFrames(rest, calls)
                 ELSE LET h == handle_payload(Loads(line), PrimaryGeometry)
                      IN  IF h.exc # "none"
                            THEN [buffer |-> rest, calls |-> calls \o h.calls, exc |-> h.exc]
                            ELSE ExtractFrames(rest, calls \o h.calls)

(***************************************************************************)
(* One event on its way: the payload built by the overlay (main.py         *)
(* 486-541), json.dumps(payload) + "\n" in broadcast (main.py 97), and the *)
(* receiver's line splitting and json.loads (client.py 71-78).             *)
(***************************************************************************)
\* the keys of a payload in the order the overlay inserts them
KeyOrder == <<"screen", "x", "y", "x_rel", "y_rel", "screen_width", "screen_height",
              "type", "button", "dx", "dy">>

\* what the extra dict of each event type holds (main.py 507, 518, 529, 540)
EventExtras ==
    {[type |-> PyStr("move"), button |-> Absent, dx |-> Absent, dy |-> Absent]}
    \cup {[type |-> PyStr(t), button |-> PyStr(b), dx |-> Absent, dy |-> Absent] :
            t \in {"press", "release"}, b \in {"left", "right"}}
    \cup {[type |-> PyStr("scroll"), button |-> Absent, dx |-> PyInt(1), dy |-> PyInt(d)] :
            d \in {-2, 120}}

Events ==
    { MkDict([screen |-> PyStr(sc), x |-> PyInt(xv), y |-> PyInt(20),
              x_rel |-> PyInt(3), y_rel |-> PyInt(5),
              screen_width |-> PyInt(1920), screen_height |-> PyInt(1080),
              type |-> e.type, button |-> e.button, dx |-> e.dx, dy |-> e.dy]) :
        sc \in ScreenStrings, xv \in {10, 11}, e \in EventExtras }

\* the bytes of one member "key": value
TokenOf(k, v) ==
    CHOOSE tok \in MemberTokens :
        /\ Members[tok].key = k
        /\ Members[tok].val.t = v.t
        /\ Members[tok].val.v = v.v

MemberBytes(k, v) ==
    IF k = "screen" THEN <<KeyScreen, QUOTE>> \o Escape(NameChars(v.v)) \o <<QUOTE>>
    ELSE <<TokenOf(k, v)>>

RECURSIVE DumpsFrom(_, _)
DumpsFrom(ev, i) ==
    IF i > Len(KeyOrder) THEN <<>>
    ELSE (IF KeyOrder[i] \in DOMAIN ev THEN MemberBytes(KeyOrder[i], ev[KeyOrder[i]])
          ELSE <<>>) \o DumpsFrom(ev, i + 1)

\* json.dumps(payload)
Dumps(ev) == <<"{">> \o DumpsFrom(ev, 1) \o <<"}">>

\* client.py 71-78: the objects handed to handle_payload for the lines of a
\* buffer, and the bytes left in the buffer
RECURSIVE PayloadsOf(_)
PayloadsOf(buf) ==
    LET k == FirstLF(buf)
    IN  IF k = 0 THEN [payloads |-> <<>>, buffer |-> buf]
        ELSE LET line == SubSeq(buf, 1, k - 1)
                 r    == PayloadsOf(SubSeq(buf, k + 1, Len(buf)))
             IN  IF IsBlank(line) \/ ~Utf8Ok(line) \/ Loads(line).kind # "dict"
                   THEN r
                   ELSE [r EXCEPT !.payloads = <<Loads(line).dict>> \o @]

FrameIdle == fq = NoQuery /\ fr = NoResult

FrameInit == fq \in Events /\ fr = NoResult

\* the event is serialized (main.py 97) and its bytes are decoded
SendAndDecode ==
    /\ fr = NoResult
    /\ LET data == Dumps(fq) \o <<LF>>
       IN  fr' = Result([data |-> data, got |-> PayloadsOf(data)])
    /\ UNCHANGED fq
    /\ UNCHANGED notFrame

NextFrame == SendAndDecode

\* line 70: buffer += chunk
AccumulateOnlyChunk(buf, chunk) == chunk

Accumulate(buf, chunk) == buf \o chunk

\* __init__ (lines 43-49) and a server that has written nothing yet
ClientInit ==
    /\ c_running = FALSE
    /\ sock = "None"
    /\ cpc = "created"
    /\ buffer = <<>>
    /\ wire = <<>>
    /\ srv_closed = FALSE
    /\ consumed = <<>>
    /\ partial = FALSE
    /\ dispatched = <<>>
    /\ signals = <<>>
    /\ cexc = "none"
    /\ stop_called = FALSE
    /\ timed_out = FALSE

\* lines 82-88: finally
Finally(exc, sigs) ==
    /\ cpc' = "finished"
    /\ cexc' = exc
    /\ sock' = IF sock = "None" THEN sock ELSE "closed"
    /\ signals' = sigs \o <<"disconnected">>

\* QThread.start(), called right after construction (lines 255-259): run()
\* will execute on the new thread
ThreadStart ==
    /\ cpc = "created"
    /\ cpc' = "started"
    /\ UNCHANGED <<c_running, sock, buffer, wire, srv_closed, consumed, partial,
                   dispatched, signals, cexc, stop_called>>
    /\ timed_out' = FALSE
    /\ UNCHANGED notClient

\* lines 52-53: run() starts
RunBegin ==
    /\ cpc = "started"
    /\ c_running' = TRUE
    /\ cpc' = "socket"
    /\ UNCHANGED <<sock, buffer, wire, srv_closed, consumed, partial, dispatched,
                   signals, cexc, stop_called>>
    /\ timed_out' = FALSE
    /\ UNCHANGED notClient

\* lines 56-57: the socket is created
CreateSocket ==
    /\ cpc = "socket"
    /\ sock' = "open"
    /\ cpc' = "connecting"
    /\ UNCHANGED <<c_running, buffer, wire, srv_closed, consumed, partial,
                   dispatched, signals, cexc, stop_called>>
    /\ timed_out' = FALSE
    /\ UNCHANGED notClient

\* lines 58-60: connect() succeeds
ConnectOk ==
    /\ cpc = "connecting"
    /\ sock = "open"
    /\ signals' = Append(signals, "status_changed:Connected")
    /\ buffer' = <<>>
    /\ cpc' = "loop"
    /\ UNCHANGED <<c_running, sock, wire, srv_closed, consumed, partial, dispatched, cexc>>
    /\ UNCHANGED stop_called
    /\ timed_out' = FALSE
    /\ UNCHANGED notClient

\* A failed connect that ends run() without reporting the error.
ConnectFailSilent ==
    /\ cpc = "connecting"
    /\ Finally("OSError", signals)
    /\ UNCHANGED <<c_running, buffer, wire, srv_closed, consumed, partial, dispatched>>
    /\ UNCHANGED stop_called
    /\ timed_out' = FALSE
    /\ UNCHANGED notClient

\* line 58 raising (refused, timed out, or the socket closed by stop()),
\* lines 80-88
ConnectFail ==
    /\ cpc = "connecting"
    /\ Finally("OSError", Append(signals, "error_occurred"))
    /\ UNCHANGED <<c_running, buffer, wire, srv_closed, consumed, partial, dispatched>>
    /\ UNCHANGED stop_called
    /\ timed_out' = FALSE
    /\ UNCHANGED notClient

\* line 62: while self._running
LoopTest ==
    /\ cpc = "loop"
    /\ IF c_running
         THEN /\ cpc' = "recv"
              /\ UNCHANGED <<sock, signals, cexc>>
         ELSE Finally("none", signals)
    /\ UNCHANGED <<c_running, buffer, wire, srv_closed, consumed, partial, dispatched>>
    /\ UNCHANGED stop_called
    /\ timed_out' = FALSE
    /\ UNCHANGED notClient

\* A timeout handled as the end of the pending data: the bytes waiting in
\* the buffer are dropped.
RecvTimeoutDropsBuffer ==
    /\ cpc = "recv"
    /\ cpc' = "loop"
    /\ buffer' = <<>>
    /\ UNCHANGED <<c_running, sock, wire, srv_closed, consumed, partial,
                   dispatched, signals, cexc>>
    /\ UNCHANGED stop_called
    /\ timed_out' = TRUE
    /\ UNCHANGED notClient

\* lines 64-66: recv times out; continue
RecvTimeout ==
    /\ cpc = "recv"
    /\ cpc' = "loop"
    /\ UNCHANGED <<c_running, sock, buffer, wire, srv_closed, consumed, partial,
                   dispatched, signals, cexc>>
    /\ UNCHANGED stop_called
    /\ timed_out' = TRUE
    /\ UNCHANGED notClient

\* line 64 on the socket stop() has closed: OSError, lines 80-88
RecvOnClosed ==
    /\ cpc = "recv"
    /\ sock = "closed"
    /\ Finally("OSError", Append(signals, "error_occurred"))
    /\ UNCHANGED <<c_running, buffer, wire, srv_closed, consumed, partial, dispatched>>
    /\ UNCHANGED stop_called
    /\ timed_out' = FALSE
    /\ UNCHANGED notClient

\* End of stream handled as the end of a last line: what is left in the
\* buffer is decoded and dispatched.
RecvEofFlushes ==
    /\ cpc = "recv"
    /\ sock = "open"
    /\ wire = <<>>
    /\ srv_closed
    /\ dispatched' = ExtractFrames(buffer \o <<LF>>, dispatched).calls
    /\ Finally("none", Append(signals, "status_changed:Server closed connection"))
    /\ UNCHANGED <<c_running, buffer, wire, srv_closed, consumed, partial>>
    /\ UNCHANGED stop_called
    /\ timed_out' = FALSE
    /\ UNCHANGED notClient

\* lines 64, 67-69: recv returns b"": the server closed the connection
RecvEof ==
    /\ cpc = "recv"
    /\ sock = "open"
    /\ wire = <<>>
    /\ srv_closed
    /\ Finally("none", Append(signals, "status_changed:Server closed connection"))
    /\ UNCHANGED <<c_running, buffer, wire, srv_closed, consumed, partial, dispatched>>
    /\ UNCHANGED stop_called
    /\ timed_out' = FALSE
    /\ UNCHANGED notClient

\* lines 64, 70-79: recv returns the next n bytes; the frames of the buffer
\* are extracted and dispatched; an exception ends run() (lines 80-88)
RecvChunk(n) ==
    /\ cpc = "recv"
    /\ sock = "open"
    /\ n \in 1..Min(RecvSize, Len(wire))
    /\ LET chunk == SubSeq(wire, 1, n)
           r     == ExtractFrames(Accumulate(buffer, chunk), dispatched)
       IN  /\ wire' = SubSeq(wire, n + 1, Len(wire))
           /\ consumed' = consumed \o chunk
           /\ partial' = (partial \/ r.buffer # <<>>)
           /\ buffer' = r.buffer
           /\ dispatched' = r.calls
           /\ IF r.exc = "none"
                THEN /\ cpc' = "loop"
                     /\ UNCHANGED <<sock, signals, cexc>>
                ELSE Finally(r.exc, Append(signals, "error_occurred"))
    /\ UNCHANGED <<c_running, srv_closed>>
    /\ UNCHANGED stop_called
    /\ timed_out' = FALSE
    /\ UNCHANGED notClient

\* stop (lines 90-96), called from the GUI thread
ClientStop ==
    /\ c_running' = FALSE
    /\ sock' = IF sock = "None" THEN sock ELSE "closed"
    /\ stop_called' = (stop_called \/ cpc # "created")
    /\ UNCHANGED <<cpc, buffer, wire, srv_closed, consumed, partial, dispatched, signals, cexc>>
    /\ UNCHANGED timed_out
    /\ UNCHANGED notClient

\* The server end of the connection: broadcast writes one line and its
\* newline (main.py 97, 102); the server closes the connection.
LinesWritten == Cardinality({i \in 1..Len(consumed) : consumed[i] = LF})
                + Cardinality({i \in 1..Len(wire) : wire[i] = LF})

ServerWrite(line) ==
    /\ cpc \in {"loop", "recv"}
    /\ ~srv_closed
    /\ LinesWritten < MaxFrames
    /\ wire' = wire \o line \o <<LF>>
    /\ UNCHANGED <<c_running, sock, cpc, buffer, srv_closed, consumed, partial,
                   dispatched, signals, cexc>>
    /\ UNCHANGED stop_called
    /\ UNCHANGED timed_out
    /\ UNCHANGED notClient

\* The server goes away inside a write: the first k bytes of the line
\* arrive, its newline does not.
ServerDiesWriting(line, k) ==
    /\ cpc \in {"loop", "recv"}
    /\ ~srv_closed
    /\ LinesWritten < MaxFrames
    /\ k \in 1..Len(line)
    /\ wire' = wire \o SubSeq(line, 1, k)
    /\ srv_closed' = TRUE
    /\ UNCHANGED <<c_running, sock, cpc, buffer, consumed, partial,
                   dispatched, signals, cexc>>
    /\ UNCHANGED stop_called
    /\ UNCHANGED timed_out
    /\ UNCHANGED notClient

ServerClose ==
    /\ cpc \in {"loop", "recv"}
    /\ ~srv_closed
    /\ srv_closed' = TRUE
    /\ UNCHANGED <<c_running, sock, cpc, buffer, wire, consumed, partial,
                   dispatched, signals, cexc>>
    /\ UNCHANGED stop_called
    /\ UNCHANGED timed_out
    /\ UNCHANGED notClient

\* The steps of the receiver thread itself.  Each one is taken within the
\* read timeout (line 57): connect and recv return or raise by then.
ThreadStep ==
    \/ RunBegin
    \/ CreateSocket
    \/ ConnectOk
    \/ ConnectFail
    \/ LoopTest
    \/ RecvTimeout
    \/ RecvOnClosed
    \/ RecvEof
    \/ \E n \in 1..Min(RecvSize, Len(wire)) : RecvChunk(n)

NextClient ==
    \/ ThreadStart
    \/ RunBegin
    \/ CreateSocket
    \/ ConnectOk
    \/ ConnectFail
    \/ LoopTest
    \/ RecvTimeout
    \/ RecvOnClosed
    \/ RecvEof
    \/ \E n \in 1..Min(RecvSize, Len(wire)) : RecvChunk(n)
    \/ ClientStop
    \/ \E line \in ServerLines : ServerWrite(line)
    \/ \E line \in ValidFrames, k \in 1..MaxLineLen : ServerDiesWriting(line, k)
    \/ ServerClose

(***************************************************************************)
(* Properties of the receiver (SpecClient)                                 *)
(***************************************************************************)
\* The run of the frame extraction over the same bytes arriving in one read.
Unsplit(bytes) == ExtractFrames(Accumulate(<<>>, bytes), <<>>)

MoveTo(x, y) == [op |-> "position", x |-> x, y |-> y]
Press(b)     == [op |-> "press", button |-> b]

\* C3: however the stream is split into reads, the calls dispatched are those
\* dispatched when the same bytes arrive in a single read, in the same order,
\* and the same bytes remain buffered.
C3_SplitReadsSameAsOneRead ==
    /\ dispatched = Unsplit(consumed).calls
    /\ cexc = "none" => buffer = Unsplit(consumed).buffer

\* The move frame, then the press frame cut inside its JSON object by a read.
C3_Witness ==
    /\ consumed = FrameMove \o <<LF>> \o FramePress \o <<LF>>
    /\ partial
    /\ buffer = <<>>
    /\ dispatched = <<MoveTo(10, 20), Press("left")>>

\* What one complete line contributes when it is decoded on its own: the
\* calls of a line that decodes and is handled, nothing for any other line.
LineCalls(line) ==
    IF IsBlank(line) \/ ~Utf8Ok(line) \/ Loads(line).kind = "JSONDecodeError"
      THEN NoCall
    ELSE IF handle_payload(Loads(line), PrimaryGeometry).exc # "none"
      THEN NoCall
      ELSE handle_payload(Loads(line), PrimaryGeometry).calls

RECURSIVE CallsOfLines(_)
CallsOfLines(bytes) ==
    IF FirstLF(bytes) = 0 THEN NoCall
    ELSE LineCalls(SubSeq(bytes, 1, FirstLF(bytes) - 1))
         \o CallsOfLines(SubSeq(bytes, FirstLF(bytes) + 1, Len(bytes)))

DecodeExceptions == {"UnicodeDecodeError", "AttributeError", "ValueError", "TypeError"}

\* C4: a line that fails to decode is discarded, the read loop goes on: every
\* valid frame read after it is dispatched, and no error is raised.
C4_UndecodableLineDiscarded ==
    /\ cexc \notin DecodeExceptions
    /\ dispatched = CallsOfLines(consumed)

(***************************************************************************)
(* Properties of the broadcaster (Spec)                                    *)
(***************************************************************************)
\* The events of the broadcast() calls that satisfy Keep, in call order.
EventsWhere(Keep(_)) ==
    LET kept == SelectSeq(log, Keep)
    IN  [i \in 1..Len(kept) |-> kept[i].ev]

\* A call that got past the running test (lines 95-96) and fanned out.
Published(e) == e.running

\* C1: each peer receives exactly the frames of the events broadcast while it
\* was in the registry, in publish order, each once.
C1_ReceivesAllWhileRegistered ==
    \A p \in Peers :
        received[p] = EventsWhere(LAMBDA e : Published(e) /\ p \in Range(e.reg))

\* C1 (amended): each peer receives exactly the frames of the events broadcast
\* while it was in the registry and its connection still took the write, in
\* publish order, each once; the frame whose write to the peer fails is not
\* received by it.
C1_ReceivesAllWhileRegisteredAndWritable ==
    \A p \in Peers :
        received[p] = EventsWhere(LAMBDA e : /\ Published(e)
                                             /\ p \in Range(e.reg)
                                             /\ p \notin e.broken)

C1_Witness ==
    /\ Len(log) = 2
    /\ log[1].reg = <<1>> /\ log[2].reg = <<1, 2>>
    /\ 1 \in log[2].broken
    /\ received[1] = <<1>>
    /\ received[2] = <<2>>

\* C2: in a pass in which the write to a registered peer A fails, every other
\* registered peer whose write succeeds, before or after A in the registry,
\* is written the frame; after the pass A is closed, out of the registry, and
\* no later broadcast writes to A.
C2_FailureIsolated ==
    \A k \in 1..Len(log) :
        Published(log[k]) =>
            \A a \in Range(log[k].reg) \cap log[k].broken :
                /\ \A b \in Range(log[k].reg) \ log[k].broken :
                       \E i \in 1..Len(received[b]) : received[b][i] = log[k].ev
                /\ conn[a] = "closed"
                /\ ~InRegistry(a)
                /\ \A j \in (k+1)..Len(log) : a \notin Range(log[j].reg)
                /\ \A i \in 1..Len(received[a]) : received[a][i] < log[k].ev

C2_Witness ==
    /\ Len(log) = 2
    /\ log[1].reg = <<1, 2>> /\ log[1].broken = {1} /\ Published(log[1])
    /\ log[2].reg = <<2>> /\ Published(log[2])
    /\ received[1] = <<>>
    /\ received[2] = <<1, 2>>

(***************************************************************************)
(* Properties of the corner detector (SpecWatcher)                         *)
(***************************************************************************)
PolledLast == lastCall = "_poll_cursor"

\* The cursor is inside the hot-zone of a display the current settings select.
CursorInZone ==
    screens # <<>> /\ InAnyCorner(screens, target_screen_name, cursor, threshold_px, position)

\* C5: a poll posts the enter notification exactly when it finds containment
\* and in_corner was false; a poll that starts with in_corner true, or that
\* clears in_corner, posts nothing; a poll that directly follows a poll (the
\* cursor stationary, no setting changed) and finds containment posts nothing,
\* so a run of such polls posts exactly one notification.
C5_EdgeTrigger ==
    [][ lastCall' = "_poll_cursor" =>
          /\ fired' <=> (PollFinds /\ ~in_corner)
          /\ in_corner => ~fired'
          /\ (in_corner /\ ~in_corner') => ~fired'
          /\ (PolledLast /\ PollFinds) => (~fired' /\ in_corner /\ in_corner')
      ]_vars

C5_Witness == PolledLast /\ PollFinds /\ in_corner /\ prevLatch /\ ~fired /\ phase = 1 /\ entries = 1

\* C6: inside, then outside for at least one poll, then inside again posts
\* exactly two notifications, none of them on the poll that observes the exit,
\* and the exit poll clears the latch.
C6_ReEntry ==
    /\ phase = 1 => (entries = 1 /\ in_corner)
    /\ phase = 2 => (entries = 1 /\ ~in_corner /\ (PolledLast => ~fired))
    /\ phase = 3 => (entries = 2 /\ in_corner)

C6_Witness == phase = 3 /\ entries = 2 /\ PolledLast /\ fired

ResettingCalls == {"set_position", "set_screen_name", "set_enabled"}

\* C7: set_position, set_screen_name and set_enabled leave in_corner false,
\* whatever it was before, and the poll that follows such a call and finds
\* containment posts a notification.
C7_SettersResetLatch ==
    /\ [](lastCall \in ResettingCalls => ~in_corner)
    /\ [][ (lastCall \in ResettingCalls /\ lastCall' = "_poll_cursor" /\ PollFinds)
             => (fired' /\ in_corner') ]_vars

C7_Witness == lastCall = "set_position" /\ prevLatch /\ ~in_corner /\ PollFinds

\* C8: set_threshold leaves in_corner false, whatever it was before.
C8_ThresholdResetsLatch == lastCall = "set_threshold" => ~in_corner

\* C10: a poll of a disabled detector posts nothing and changes no field of
\* the detector, wherever the cursor is and whatever the displays are.
C10_DisabledPollNoOp ==
    [][ (lastCall' = "_poll_cursor" /\ ~enabled) =>
          /\ ~fired'
          /\ UNCHANGED <<threshold_px, position, enabled, target_screen_name, in_corner>>
      ]_vars

C10_Witness == PolledLast /\ ~enabled /\ CursorInZone /\ ~in_corner /\ ~fired

(***************************************************************************)
(* Properties of the containment test (SpecCorner)                         *)
(***************************************************************************)
\* The reference predicate of the hot-zone, by corner.
InBottomLeft(g, x, y, t)  == x <= g.x + t /\ y >= g.y + g.height - t
InBottomRight(g, x, y, t) == x >= g.x + g.width - t /\ y >= g.y + g.height - t
InTopLeft(g, x, y, t)     == x <= g.x + t /\ y <= g.y + t
InTopRight(g, x, y, t)    == x >= g.x + g.width - t /\ y <= g.y + t

Contained(q) ==
    CASE q.position = "bottom-right" -> InBottomRight(q.geometry, q.x, q.y, q.threshold)
      [] q.position = "top-left"     -> InTopLeft(q.geometry, q.x, q.y, q.threshold)
      [] q.position = "top-right"    -> InTopRight(q.geometry, q.x, q.y, q.threshold)
      [] OTHER                       -> InBottomLeft(q.geometry, q.x, q.y, q.threshold)

ScenarioQuery(x, y) ==
    [geometry |-> Screen("HD", 0, 0, 1920, 1080), x |-> x, y |-> y,
     threshold |-> 60, position |-> "bottom-left"]

\* C9: _is_in_corner equals the reference predicate on every input, an
\* unrecognised position behaving as bottom-left; on display (0,0,1920,1080),
\* bottom-left, threshold 60: (30,1050) is contained, (100,1050) and
\* (30,1000) are not.
C9_ContainmentMatchesReference ==
    cr.done =>
        /\ cr.value = Contained(cq)
        /\ cq = ScenarioQuery(30, 1050) => cr.value
        /\ cq = ScenarioQuery(100, 1050) => ~cr.value
        /\ cq = ScenarioQuery(30, 1000) => ~cr.value

C9_Witness ==
    /\ cr.done
    /\ cq.position = "center" /\ cq.geometry.name = "B" /\ cq.x = 9 /\ cq.y = 7
    /\ cr.value

(***************************************************************************)
(* Display selection and the empty topology                                *)
(***************************************************************************)
DisplayNames == { screens[i].name : i \in 1..Len(screens) }

\* The displays a poll is to test: the named one when the topology has it,
\* every display otherwise.
SelectedDisplays ==
    IF target_screen_name \in DisplayNames \ {None}
      THEN { i \in 1..Len(screens) : screens[i].name = target_screen_name }
      ELSE 1..Len(screens)

ContainedInSelected ==
    \E i \in SelectedDisplays :
        IsInCorner(screens[i], cursor[1], cursor[2], threshold_px, position)

ContainedIn(i) ==
    /\ i \in 1..Len(screens)
    /\ IsInCorner(screens[i], cursor[1], cursor[2], threshold_px, position)

\* C11: a poll that reaches the containment test leaves the latch equal to
\* containment in the selected displays: the named target display alone when
\* the topology has it, any display of the topology when the target is unset,
\* empty or names no display.
C11_DisplaySelection ==
    (PolledLast /\ enabled /\ screens # <<>>) => (in_corner = ContainedInSelected)

\* the pointer is in the zone of display B only while the target is display A
C11_Witness ==
    /\ PolledLast /\ enabled /\ Len(screens) = 2
    /\ target_screen_name = "A"
    /\ ~ContainedIn(1) /\ ContainedIn(2)
    /\ ~in_corner

\* C12: a poll on an empty topology is a poll with no containment: the latch
\* is clear after it and nothing is posted.
C12_EmptyTopologyClearsLatch ==
    (PolledLast /\ enabled /\ screens = <<>>) => (~in_corner /\ ~fired)

(***************************************************************************)
(* Broadcaster lifecycle                                                   *)
(***************************************************************************)
\* the broadcaster's own state: everything but the observers
ServerState == <<running, server_socket, socks, clients, tpc, tsock, tconn, conn,
                 received>>

StartCalled == called'.op = "start" /\ called' # called
StopCalled  == called'.op = "stop" /\ called' # called

\* C13: start() on a running broadcaster changes nothing: no socket is
\* created, no accept thread is started and the registry is as it was.
C13_StartIdempotent ==
    [][(StartCalled /\ running) => UNCHANGED ServerState]_vars

\* start() has just been called on a running broadcaster with a registered peer
C13_Witness ==
    /\ called.op = "start" /\ running /\ Len(clients) > 0
    /\ \E t \in SockIds : tpc[t] \notin {"none", "done", "crashed"}

\* C14: stop() leaves the broadcaster not running, without a listening
\* socket (the one it had is closed) and with an empty registry whose
\* connections are all closed; a stop() right after a stop() changes nothing.
C14_StopClosesAndIsIdempotent ==
    [][StopCalled =>
         /\ ~running' /\ server_socket' = NoSock /\ clients' = <<>>
         /\ server_socket # NoSock => socks'[server_socket] = "closed"
         /\ \A s \in SockIds : socks'[s] \in {"none", "closed"}
         /\ \A p \in Peers : InRegistry(p) => conn'[p] = "closed"
         /\ called.op = "stop" => UNCHANGED ServerState]_vars

\* stop() has been called twice in a row on a broadcaster that had a
\* listening socket and a registered peer
C14_Witness ==
    /\ called = [op |-> "stop", n |-> 2]
    /\ \E s \in SockIds : socks[s] = "closed"
    /\ \E p \in Peers : conn[p] = "closed" /\ received[p] # <<>>

(***************************************************************************)
(* End of stream and stop() on the receiver                                *)
(***************************************************************************)
PeerClosed == "status_changed:Server closed connection"

EofReported == \E i \in 1..Len(signals) : signals[i] = PeerClosed

\* C15: once a read has returned zero bytes the peer-closed status has been
\* reported, the socket is closed, disconnected is the last signal and run()
\* has finished; neither that step nor any later one dispatches anything, so
\* bytes left in the buffer without a newline are never dispatched.
C15_EofEndsLoop ==
    /\ [](EofReported =>
            /\ cpc = "finished" /\ sock = "closed" /\ cexc = "none"
            /\ Len(signals) >= 2
            /\ signals[Len(signals)] = "disconnected"
            /\ signals[Len(signals) - 1] = PeerClosed)
    /\ [][EofReported' => dispatched' = dispatched]_vars

\* end of stream with a whole frame in the buffer that never got its newline
C15_Witness ==
    /\ EofReported
    /\ buffer = FramePress
    /\ dispatched = <<MoveTo(10, 20)>>

\* C16: after stop() on a started thread, run() finishes.
C16_StopEndsRun == stop_called ~> (cpc = "finished")

(***************************************************************************)
(* Properties of handle_payload (SpecPayload)                              *)
(***************************************************************************)
Handled == hr # NoResult
Has(key) == key \in DOMAIN hq.payload
TypeIs(t) == Has("type") /\ hq.payload["type"] = PyStr(t)

\* all four fields of the relative mapping are present and the origin
\* dimensions are not zero
MappingGiven ==
    /\ Has("x_rel") /\ Has("y_rel") /\ Has("screen_width") /\ Has("screen_height")
    /\ hq.payload["screen_width"].v # 0
    /\ hq.payload["screen_height"].v # 0

Abs(n) == IF n < 0 THEN -n ELSE n

\* v is an integer nearest to num / den
IsNearest(v, num, den) == 2 * Abs(v * den - num) <= Abs(den)

\* C17: a move with the relative mapping given injects, on each axis, the
\* local origin plus the relative coordinate scaled to the local dimension
\* and rounded to nearest.
C17_RemapRoundsToNearest ==
    (Handled /\ TypeIs("move") /\ MappingGiven /\ hq.geo # NoGeometry) =>
        /\ hr.value.exc = "none"
        /\ Len(hr.value.calls) = 1
        /\ hr.value.calls[1].op = "position"
        /\ IsNearest(hr.value.calls[1].x - hq.geo.x,
                     hq.payload["x_rel"].v * hq.geo.width,
                     hq.payload["screen_width"].v)
        /\ IsNearest(hr.value.calls[1].y - hq.geo.y,
                     hq.payload["y_rel"].v * hq.geo.height,
                     hq.payload["screen_height"].v)

\* C18: a move carrying x and y injects exactly (x, y) when a field of the
\* relative mapping is absent or an origin dimension is zero; with the
\* mapping given, a relative coordinate of 0 is mapped (to the local origin
\* on its axis) and is no reason to fall back.
C18_FallbackToAbsolute ==
    (Handled /\ TypeIs("move") /\ Has("x") /\ Has("y")) =>
        /\ ~MappingGiven =>
              hr.value = Done(<<MoveTo(hq.payload["x"].v, hq.payload["y"].v)>>)
        /\ (MappingGiven /\ hq.geo # NoGeometry) =>
              /\ Len(hr.value.calls) = 1
              /\ hq.payload["x_rel"].v = 0 => hr.value.calls[1].x = hq.geo.x
              /\ hq.payload["y_rel"].v = 0 => hr.value.calls[1].y = hq.geo.y

\* a zero origin width with the other three fields present: (x, y) is injected
C18_Witness ==
    /\ Handled /\ TypeIs("move") /\ Has("x") /\ Has("y")
    /\ Has("x_rel") /\ Has("y_rel") /\ Has("screen_width") /\ Has("screen_height")
    /\ hq.payload["screen_width"].v = 0 /\ hq.payload["screen_height"].v # 0
    /\ hq.geo = PrimaryGeometry
    /\ hr.value.calls = <<MoveTo(10, 20)>>

\* a payload of a known type without a field that type requires
LacksRequiredField ==
    \/ TypeIs("move") /\ ~(Has("x") /\ Has("y")) /\ ~(MappingGiven /\ hq.geo # NoGeometry)
    \/ (TypeIs("press") \/ TypeIs("release")) /\ ~Has("button")
    \/ TypeIs("scroll") /\ ~(Has("dx") /\ Has("dy"))

\* C20: a payload of a known type that lacks a required field causes no call
\* on the Controller and no error.
C20_MissingFieldIgnored ==
    (Handled /\ LacksRequiredField) => hr.value = Done(NoCall)

(***************************************************************************)
(* Frames of an unknown type in the read loop (SpecClient)                 *)
(***************************************************************************)
UnknownFrames == {FrameUnknown, FrameNoType}

RECURSIVE CompleteLines(_)
CompleteLines(bytes) ==
    IF FirstLF(bytes) = 0 THEN <<>>
    ELSE <<SubSeq(bytes, 1, FirstLF(bytes) - 1)>>
         \o CompleteLines(SubSeq(bytes, FirstLF(bytes) + 1, Len(bytes)))

\* the calls the valid frames of the model stand for
FrameCalls(line) ==
    IF line = FrameMove THEN <<MoveTo(10, 20)>>
    ELSE IF line = FramePress THEN <<Press("left")>>
    ELSE <<>>

RECURSIVE CallsOfFrames(_)
CallsOfFrames(lines) ==
    IF lines = <<>> THEN <<>>
    ELSE FrameCalls(Head(lines)) \o CallsOfFrames(Tail(lines))

\* C19: a stream of valid frames and of objects whose type is absent or
\* unknown raises no error, and the calls made are those of the valid
\* frames alone, in order: the unknown object causes no call and the frames
\* after it are dispatched.
C19_UnknownTypeIgnored ==
    (\A i \in 1..Len(CompleteLines(consumed)) :
         CompleteLines(consumed)[i] \in ValidFrames \cup UnknownFrames)
    => /\ cexc \notin DecodeExceptions
       /\ dispatched = CallsOfFrames(CompleteLines(consumed))

\* an object without type, then a press frame: only the press is dispatched
C19_Witness ==
    /\ consumed = FrameNoType \o <<LF>> \o FramePress \o <<LF>>
    /\ dispatched = <<Press("left")>>
    /\ cexc = "none"

(***************************************************************************)
(* A failed connection attempt (SpecClient)                                *)
(***************************************************************************)
ConnectFailed == cpc = "connecting" /\ cpc' = "finished"

\* C21: the step in which connect() fails emits error_occurred and then
\* disconnected and nothing else, closes the socket and ends run() with
\* nothing dispatched; the session is over: no later step dispatches an
\* event or emits a signal, so it never reports connected.
C21_ConnectFailureSurfaced ==
    /\ [][ConnectFailed =>
            /\ signals' = <<"error_occurred", "disconnected">>
            /\ sock' = "closed"
            /\ cexc' = "OSError"
            /\ dispatched' = <<>>]_vars
    /\ [][cpc = "finished" => UNCHANGED <<cpc, dispatched, signals>>]_vars

\* connect() was refused or timed out (stop() was never called)
C21_Witness ==
    /\ cpc = "finished" /\ c_running /\ ~stop_called
    /\ signals = <<"error_occurred", "disconnected">>
    /\ sock = "closed" /\ dispatched = <<>>

(***************************************************************************)
(* Frame round trip (SpecFrame)                                            *)
(***************************************************************************)
\* C22: the bytes written for an event are one line: they end with a
\* newline and hold no other; the receiver's line splitting and decoding of
\* them leaves nothing buffered and yields exactly one object, equal to the
\* event key by key.
C22_FrameRoundTrip ==
    fr # NoResult =>
        LET data == fr.value.data
        IN  /\ data[Len(data)] = LF
            /\ \A i \in 1..(Len(data) - 1) : data[i] # LF
            /\ fr.value.got.payloads = <<fq>>
            /\ fr.value.got.buffer = <<>>

\* a press event from a display whose name holds a newline
C22_Witness ==
    /\ fr # NoResult
    /\ fq["type"] = PyStr("press") /\ fq["screen"] = PyStr("A<LF>B")
    /\ fr.value.got.payloads = <<fq>>

(***************************************************************************)
(* The registry lock (SpecLocked)                                          *)
(***************************************************************************)
\* the threads inside a with self._clients_lock block
InCritical ==
    {<<"accept", t>> : t \in {u \in SockIds : tpc[u] = "locked"}}
    \cup (IF bpc = "send" THEN {<<"broadcast", 0>>} ELSE {})
    \cup (IF spc \in {"closing", "clearing"} THEN {<<"stop", 0>>} ELSE {})

\* C23: at most one thread is inside a locked block; the registry changes
\* and is copied only in steps of the thread that holds the lock; broadcast
\* writes only to connections that are in the registry and not closed; and
\* the registry a pass copies is whole: no other thread is inside its
\* locked block and no connection of it is closed or not yet registered.
C23_RegistryUnderLock ==
    /\ [](Cardinality(InCritical) <= 1 /\ (lock = "free" <=> InCritical = {}))
    /\ [][clients' # clients => lock # "free"]_vars
    /\ [][(bpc = "send" /\ bi' = bi + 1) =>
            InRegistry(bsnap[bi]) /\ conn[bsnap[bi]] # "closed"]_vars
    /\ [][(bpc = "acquire" /\ bpc' = "send") =>
            /\ lock = "free" /\ lock' = "broadcast"
            /\ \A p \in Range(clients) : conn[p] \in {"open", "broken"}]_vars

\* broadcast is inside its pass, one write done, while stop() and the accept
\* thread both wait for the lock
C23_Witness ==
    /\ bpc = "send" /\ bi = 2
    /\ spc = "acquire"
    /\ \E t \in SockIds : tpc[t] = "accepted"

(***************************************************************************)
(* Deferred delivery of the enter notification (SpecWatcher)               *)
(***************************************************************************)
\* C30: on_enter is never called while the detector is disabled, also when
\* set_enabled(false) comes between the poll that queued the call and the
\* call.
C30_NoEnterWhileDisabled == lastCall = "on_enter" => enabled

(***************************************************************************)
(* The threshold is clamped (SpecWatcher)                                  *)
(***************************************************************************)
\* C34: the threshold is at least 1 in every state: an argument of
\* construction or of set_threshold that is zero or negative is stored as 1,
\* any other as it is.
C34_ThresholdAtLeastOne ==
    /\ threshold_px >= 1
    /\ asked < 1 => threshold_px = 1
    /\ asked >= 1 => threshold_px = asked

\* set_threshold(-1) was called
C34_Witness == lastCall = "set_threshold" /\ asked = -1 /\ threshold_px = 1

(***************************************************************************)
(* The receive buffer between reads (SpecClient)                           *)
(***************************************************************************)
HasLF(bytes) == \E i \in 1..Len(bytes) : bytes[i] = LF

\* the bytes that follow the last newline of a stream
AfterLastLF(bytes) ==
    IF ~HasLF(bytes) THEN bytes
    ELSE LET k == CHOOSE i \in 1..Len(bytes) :
                      bytes[i] = LF /\ \A j \in (i+1)..Len(bytes) : bytes[j] # LF
         IN  SubSeq(bytes, k + 1, Len(bytes))

\* C27: whenever the loop is about to read (at its test or inside recv) the
\* buffer holds no newline, and it holds exactly the bytes received after
\* the last newline; the read prefixes them to its chunk.
C27_NoNewlineBeforeRead ==
    cpc \in {"loop", "recv"} =>
        /\ ~HasLF(buffer)
        /\ buffer = AfterLastLF(consumed)

\* a frame was read whole and dispatched, and the first bytes of the next
\* line wait in the buffer for the next read
C27_Witness ==
    /\ cpc = "recv"
    /\ buffer # <<>>
    /\ HasLF(consumed)
    /\ dispatched # <<>>

\* C28: a read that times out changes nothing but the position of run():
\* the buffer is kept, nothing is dispatched, no signal is emitted, no
\* exception is recorded and the socket stays as it was; control is back at
\* the loop test, whose next step reads again when the flag is still set.
C28_TimeoutIsNotAnError ==
    /\ [][(cpc = "recv" /\ timed_out') =>
            /\ cpc' = "loop"
            /\ UNCHANGED <<buffer, dispatched, signals, cexc, sock, c_running>>]_vars
    /\ [](timed_out => cpc = "loop")
    /\ [][(timed_out /\ cpc' # cpc) =>
            cpc' = IF c_running THEN "recv" ELSE "finished"]_vars

\* the read timed out with a frame dispatched and half a line buffered
C28_Witness ==
    /\ timed_out
    /\ buffer # <<>>
    /\ dispatched # <<>>
    /\ signals = <<"status_changed:Connected">>
    /\ cexc = "none"

(***************************************************************************)
(* A stream of lines, some of them blank, through the loop body of run()   *)
(* (client.py 64-79) in two reads.                                         *)
(***************************************************************************)
StreamLines == {FrameMove, FramePress, FrameUnknown, LineTruncated, LineWrongType,
                LineEmpty, LineBlank}

\* the bytes broadcast writes for a sequence of lines (main.py 97)
RECURSIVE Join(_)
Join(lines) ==
    IF lines = <<>> THEN <<>> ELSE Head(lines) \o <<LF>> \o Join(Tail(lines))

Streams == UNION {[1..n -> StreamLines] : n \in 1..MaxStreamLines}

\* lines 64, 70-79 twice: recv returns the first cut bytes, then the rest;
\* an exception in the first pass ends run()
TwoReads(bytes, cut) ==
    LET first == ExtractFrames(Accumulate(<<>>, SubSeq(bytes, 1, cut)), <<>>)
    IN  IF first.exc # "none" \/ cut = Len(bytes) THEN first
        ELSE ExtractFrames(Accumulate(first.buffer, SubSeq(bytes, cut + 1, Len(bytes))),
                           first.calls)

StreamIdle == sq = NoQuery /\ sr = NoResult

StreamInit ==
    /\ sr = NoResult
    /\ \E ls \in Streams :
          \E c \in 1..Len(Join(ls)) : sq = [bytes |-> Join(ls), cut |-> c]

ReadStream ==
    /\ sr = NoResult
    /\ sr' = Result(TwoReads(sq.bytes, sq.cut))
    /\ UNCHANGED sq
    /\ UNCHANGED notStream

NextStream == ReadStream

\* a stream with its blank lines taken out
RECURSIVE NoBlankLines(_)
NoBlankLines(bytes) ==
    IF FirstLF(bytes) = 0 THEN bytes
    ELSE LET line == SubSeq(bytes, 1, FirstLF(bytes) - 1)
             rest == NoBlankLines(SubSeq(bytes, FirstLF(bytes) + 1, Len(bytes)))
         IN  IF IsBlank(line) THEN rest ELSE line \o <<LF>> \o rest

\* C29: blank lines are taken from the buffer and ignored: the calls made
\* and the way the pass ends are those of the same stream without its blank
\* lines, and when no frame raised nothing is left in the buffer.
C29_BlankLinesIgnored ==
    sr # NoResult =>
        LET got   == sr.value
            plain == Unsplit(NoBlankLines(sq.bytes))
        IN  /\ got.calls = plain.calls
            /\ got.exc = plain.exc
            /\ got.exc = "none" => got.buffer = <<>>

\* a move frame, a line of whitespace ending the first read, a press frame
C29_Witness ==
    /\ sr # NoResult
    /\ sq.bytes = Join(<<FrameMove, LineBlank, FramePress>>)
    /\ sq.cut = Len(FrameMove) + 1 + Len(LineBlank)
    /\ sr.value.calls = <<MoveTo(10, 20), Press("left")>>
    /\ sr.value.exc = "none"

(***************************************************************************)
(* stop() against the accept loop, and a failed bind (Spec, SpecFair)      *)
(***************************************************************************)
AcceptEnded(t) == tpc[t] \in {"none", "done", "crashed"}

\* stop() has returned and every accept loop has terminated
StoppedAndQuiet ==
    /\ ~running /\ server_socket = NoSock
    /\ \E s \in SockIds : socks[s] = "closed"
    /\ \A t \in SockIds : AcceptEnded(t)

\* C24: once stop() has returned and the accept loops have ended the
\* registry is empty and every connection accepted has been closed.
C24_NoPeerLeftAfterStop ==
    StoppedAndQuiet =>
        /\ clients = <<>>
        /\ \A p \in Peers : conn[p] \in {"idle", "closed"}

\* C25: the accept thread of a socket closed by stop() ends, and it ends by
\* leaving its loop: no exception escapes it, and the step that ends it adds
\* nothing to the registry.
C25_AcceptLoopEndsSilently ==
    /\ \A t \in SockIds : (socks[t] = "closed") ~> (tpc[t] \in {"none", "done"})
    /\ [](\A t \in SockIds : tpc[t] # "crashed")
    /\ [][\A t \in SockIds :
            (tpc[t] # "done" /\ tpc'[t] = "done") => clients' = clients]_vars

\* C26: a start() whose bind failed leaves the broadcaster not running.
C26_FailedBindNotRunning ==
    (\E s \in SockIds : socks[s] = "unbound") => ~running

(***************************************************************************)
(* broadcast() on a broadcaster that is not running (Spec)                 *)
(***************************************************************************)
BroadcastCalled == Len(log') > Len(log)

\* C31: a broadcast() called while the broadcaster is not running writes to
\* no peer and leaves the registry and the connections as they were; no
\* step taken while it is not running writes a frame to a peer.
C31_NotRunningNoWrite ==
    /\ [][(BroadcastCalled /\ ~running) => UNCHANGED <<clients, conn, received>>]_vars
    /\ [][~running => received' = received]_vars

\* broadcast() was called after stop(), with a peer still in the registry
\* whose connection is open: nothing was written to it
C31_Witness ==
    /\ called.op = "broadcast"
    /\ ~running
    /\ \E s \in SockIds : socks[s] = "closed"
    /\ ~log[Len(log)].running
    /\ \E p \in Peers : InRegistry(p) /\ conn[p] = "open" /\ received[p] = <<>>

(***************************************************************************)
(* A deliberate stop() of a connected receiver (SpecClient)                *)
(***************************************************************************)
Emitted(sig) == Cardinality({i \in 1..Len(signals) : signals[i] = sig})

\* run() has ended after stop() was called on a connected receiver, and not
\* because a frame raised
StoppedWhileConnected ==
    /\ cpc = "finished"
    /\ stop_called
    /\ Emitted("status_changed:Connected") = 1
    /\ cexc \notin DecodeExceptions

\* C32: a stop() of a connected receiver ends the run with disconnected
\* emitted exactly once and error_occurred never, wherever the read loop is
\* when stop() runs.
C32_StopEndsCleanly ==
    StoppedWhileConnected =>
        /\ Emitted("disconnected") = 1
        /\ Emitted("error_occurred") = 0

(***************************************************************************)
(* run_client (client.py 99-128) beside ClientThread.run (51-88) on the    *)
(* same results of recv, with no stop request.                             *)
(***************************************************************************)
Timeout  == [kind |-> "timeout", bytes |-> <<>>]
Eof      == [kind |-> "eof", bytes |-> <<>>]
Chunk(b) == [kind |-> "chunk", bytes |-> b]

PressHead == SubSeq(FramePress, 1, 1)
PressTail == SubSeq(FramePress, 2, Len(FramePress)) \o <<LF>>

ReadChunks ==
    {FrameMove \o <<LF>>, PressHead, PressTail,
     FrameMove \o <<LF>> \o FramePress \o <<LF>>,
     LineBlank \o <<LF>>, LineTruncated \o <<LF>>, LineWrongType \o <<LF>>,
     LineNotUtf8 \o <<LF>>}

ReadResults == {Timeout, Eof} \cup {Chunk(b) : b \in ReadChunks}

\* a receiver that has connected: empty buffer (lines 60, 105), in its loop
Fresh == [buffer |-> <<>>, calls |-> <<>>, ended |-> 0, how |-> "running"]

\* run_client with `if` in place of `while` at line 118
CliExtractOnce(buf, calls) == ExtractFramesOnce(buf, calls)

\* run_client lines 118-127: the inner while loop
RECURSIVE CliExtract(_, _)
CliExtract(buf, calls) ==
    LET k == FirstLF(buf)
    IN  IF k = 0 THEN [buffer |-> buf, calls |-> calls, exc |-> "none"]
        ELSE LET line == SubSeq(buf, 1, k - 1)                    \* line 119
                 rest == SubSeq(buf, k + 1, Len(buf))
             IN  IF IsBlank(line) THEN CliExtract(rest, calls)    \* 120-121
                 ELSE IF ~Utf8Ok(line)                            \* line 123
                   THEN [buffer |-> rest, calls |-> calls, exc |-> "UnicodeDecodeError"]
                 ELSE IF Loads(line).kind = "JSONDecodeError"     \* 124-125
                   THEN CliExtract(rest, calls)
                 ELSE LET h == handle_payload(Loads(line), PrimaryGeometry)
                      IN  IF h.exc # "none"                       \* line 126
                            THEN [buffer |-> rest, calls |-> calls \o h.calls, exc |-> h.exc]
                            ELSE CliExtract(rest, calls \o h.calls)

\* what a pass of the inner loop leaves of a receiver at its n-th read
AfterPass(x, n) ==
    [buffer |-> x.buffer, calls |-> x.calls,
     ended |-> IF x.exc = "none" THEN 0 ELSE n,
     how |-> IF x.exc = "none" THEN "running" ELSE x.exc]

\* ClientThread.run lines 62-88 on the n-th result of recv, _running set
ThreadRead(st, r, n) ==
    IF st.ended # 0 THEN st
    ELSE IF r.kind = "timeout" THEN st                             \* 65-66
    ELSE IF r.kind = "eof" THEN [st EXCEPT !.ended = n, !.how = "eof"] \* 67-69
    ELSE AfterPass(ExtractFrames(Accumulate(st.buffer, r.bytes), st.calls), n)

\* run_client lines 109-128 on the n-th result of recv
CliRead(st, r, n) ==
    IF st.ended # 0 THEN st
    ELSE IF r.kind = "timeout" THEN st                             \* 112-113
    ELSE IF r.kind = "eof" THEN [st EXCEPT !.ended = n, !.how = "eof"] \* 114-116
    ELSE AfterPass(CliExtract(st.buffer \o r.bytes, st.calls), n)  \* 117-127

ReadsIdle == eq = NoQuery /\ er = NoResult

ReadsInit ==
    /\ eq \in UNION {[1..n -> ReadResults] : n \in 1..MaxReads}
    /\ er = [i |-> 0, thr |-> Fresh, cli |-> Fresh]

\* the next recv returns in both receivers
ReadBoth ==
    /\ er.i < Len(eq)
    /\ er' = [i   |-> er.i + 1,
              thr |-> ThreadRead(er.thr, eq[er.i + 1], er.i + 1),
              cli |-> CliRead(er.cli, eq[er.i + 1], er.i + 1)]
    /\ UNCHANGED eq
    /\ UNCHANGED notReads

NextReads == ReadBoth

InitWatcher == ReadsIdle /\ StreamIdle /\ FrameIdle /\ PayloadIdle /\ CornerIdle /\ ServerInit /\ ClientInit /\ WatcherInit

SpecWatcher == InitWatcher /\ [][NextWatcher]_vars

InitCorner == ReadsIdle /\ StreamIdle /\ FrameIdle /\ PayloadIdle /\ WatcherIdle /\ ServerInit /\ ClientInit /\ CornerInit

SpecCorner == InitCorner /\ [][NextCorner]_vars

Init == ReadsIdle /\ StreamIdle /\ FrameIdle /\ PayloadIdle /\ WatcherIdle /\ CornerIdle /\ ClientInit /\ ServerInit

Spec == Init /\ [][Next]_vars

InitClient == ReadsIdle /\ StreamIdle /\ FrameIdle /\ PayloadIdle /\ WatcherIdle /\ CornerIdle /\ ServerInit /\ ClientInit

SpecClient == InitClient /\ [][NextClient]_vars

InitPayload == ReadsIdle /\ StreamIdle /\ FrameIdle /\ WatcherIdle /\ CornerIdle /\ ServerInit /\ ClientInit /\ PayloadInit

SpecPayload == InitPayload /\ [][NextPayload]_vars

InitFrame ==
    ReadsIdle /\ StreamIdle /\ PayloadIdle /\ WatcherIdle /\ CornerIdle /\ ServerInit /\ ClientInit /\ FrameInit

SpecFrame == InitFrame /\ [][NextFrame]_vars

InitStream ==
    ReadsIdle /\ FrameIdle /\ PayloadIdle /\ WatcherIdle /\ CornerIdle /\ ServerInit /\ ClientInit
    /\ StreamInit

SpecStream == InitStream /\ [][NextStream]_vars

InitReads ==
    StreamIdle /\ FrameIdle /\ PayloadIdle /\ WatcherIdle /\ CornerIdle /\ ServerInit
    /\ ClientInit /\ ReadsInit

SpecReads == InitReads /\ [][NextReads]_vars

\* The broadcaster with accept threads that keep being scheduled.
SpecFair == Init /\ [][Next]_vars /\ WF_vars(AcceptThreadStep)

\* The broadcaster statement by statement, with its lock.
SpecLocked == Init /\ [][NextLocked]_vars

\* The receiver with a thread that keeps being scheduled.
SpecClientFair == InitClient /\ [][NextClient]_vars /\ WF_vars(ThreadStep)

=============================================================================
